---- MODULE Spec2Model ----
(***************************************************************************)
(* REIVM: bounded value stack, word dictionary with protection and         *)
(* redefinition history, and the VM execution / serialize / clone model.   *)
(*                                                                         *)
(* JavaScript objects that the code shares by reference (Stack, Dictionary *)
(* and WordMetadata objects) live in heaps indexed by object id, so that   *)
(* two holders of the same id see each other's mutations.  Word objects    *)
(* are never mutated after define() builds them, so they are values that   *)
(* carry the id of their metadata object.                                  *)
(***************************************************************************)
EXTENDS Integers, Sequences, FiniteSets, TLC

(***************************************************************************)
(* Bounds of the model                                                     *)
(***************************************************************************)
StackDepth == 4        \* config.stackDepth given to the constructor
ReturnStackDepth == 2  \* config.returnStackDepth given to the constructor
MaxVal == 8            \* numbers on the stack stay within -MaxVal..MaxVal
MaxFuel == 7           \* nested execute() calls the host call stack allows
MaxMeta == 3           \* WordMetadata objects created besides the CORE ones
MaxPrev == 2           \* length of a previousDefinitions list
MaxSteps == 6          \* calls made by the caller in one behaviour
MaxExecSteps == 3      \* calls in one behaviour of SpecExec
MaxStackSteps == 4     \* calls in one behaviour of Spec
MaxDictSteps == 4      \* calls in one behaviour of SpecDict
MaxRestoreSteps == 5   \* calls in one behaviour of SpecRestore
MaxRoundTripSteps == 6 \* calls in one behaviour of SpecRoundTrip
MaxStateSteps == 5     \* calls in one behaviour of SpecState
MaxCloneSteps == 5     \* calls in one behaviour of SpecClone
MaxListSteps == 5      \* calls in one behaviour of SpecList
MaxStackOpSteps == 5   \* calls in one behaviour of SpecStack
WordStackDepth == 6    \* config.stackDepth of the VM of SpecWords
MaxWordSteps == 2      \* calls in one behaviour of SpecWords
MaxBindSteps == 5      \* calls in one behaviour of SpecBind
MaxNumeralSteps == 4   \* calls in one behaviour of SpecNumeral
MaxStepSteps == 3      \* calls in one behaviour of SpecStep
MaxFrameSteps == 3     \* calls in one behaviour of SpecFrame
SmallStackDepth == 2   \* config.stackDepth of the second VM of SpecAtomic
MaxAtomicSteps == 5    \* calls in one behaviour of SpecAtomic

(***************************************************************************)
(* Optional values (undefined / present)                                   *)
(***************************************************************************)
None == [has |-> FALSE]
Some(v) == [has |-> TRUE, v |-> v]

(***************************************************************************)
(* StackValue: numbers, booleans and NaN (word.ts StackValue)              *)
(***************************************************************************)
Num(n) == [t |-> "num", n |-> n]
Bool(b) == [t |-> "bool", n |-> IF b THEN 1 ELSE 0]
NaN == [t |-> "nan", n |-> 0]
Undefined == [t |-> "undefined", n |-> 0]

IsNaN(v) == v.t \in {"nan", "undefined"}
ToNumber(v) == v.n
Abs(n) == IF n < 0 THEN 0 - n ELSE n

(***************************************************************************)
(* Errors (errors.ts); Dictionary throws plain Error objects               *)
(***************************************************************************)
NoErr == [cls |-> "none", type |-> "", msg |-> "", word |-> ""]
StackOverflowError == [cls |-> "StackOverflowError", type |-> "STACK_OVERFLOW",
                       msg |-> "Stack overflow", word |-> ""]
StackUnderflowError == [cls |-> "StackUnderflowError", type |-> "STACK_UNDERFLOW",
                        msg |-> "Stack underflow", word |-> ""]
WordNotFoundError(name) == [cls |-> "WordNotFoundError", type |-> "WORD_NOT_FOUND",
                            msg |-> "Word not found", word |-> name]
PlainError(m, name) == [cls |-> "Error", type |-> "", msg |-> m, word |-> name]
\* the host call stack is exhausted (RangeError of the JavaScript engine)
RangeError == [cls |-> "RangeError", type |-> "", msg |-> "Maximum call stack size exceeded",
               word |-> ""]

(***************************************************************************)
(* Stack (stack.ts).  A step result r carries the items of the data stack, *)
(* the error thrown so far (NoErr while running) and oor, set when a       *)
(* number left the range of the model.                                     *)
(***************************************************************************)
DefaultMaxDepth == 256

Result(items) == [st |-> items, err |-> NoErr, oor |-> FALSE]

\* variant of push that checks the bound after appending
StackPushLate(r, v, maxDepth) ==
  IF r.err # NoErr THEN r
  ELSE IF Len(r.st) >= maxDepth THEN [r EXCEPT !.st = Append(r.st, v), !.err = StackOverflowError]
  ELSE [r EXCEPT !.st = Append(r.st, v)]

\* variant of push that overwrites the top value
StackPushReplacesTop(r, v, maxDepth) ==
  IF r.err # NoErr THEN r
  ELSE IF Len(r.st) >= maxDepth THEN [r EXCEPT !.err = StackOverflowError]
  ELSE [r EXCEPT !.st = Append(SubSeq(r.st, 1, Len(r.st) - 1), v)]

\* variant of push that fails one value too late
StackPushOffByOne(r, v, maxDepth) ==
  IF r.err # NoErr THEN r
  ELSE IF Len(r.st) > maxDepth THEN [r EXCEPT !.err = StackOverflowError]
  ELSE [r EXCEPT !.st = Append(r.st, v)]

\* Stack.push
StackPush(r, v, maxDepth) ==
  IF r.err # NoErr THEN r
  ELSE IF Len(r.st) >= maxDepth THEN [r EXCEPT !.err = StackOverflowError]
  ELSE [r EXCEPT !.st = Append(r.st, v)]

\* variant of pop that removes the bottom value
StackPopBottom(r) ==
  IF r.err # NoErr THEN r
  ELSE IF Len(r.st) = 0 THEN [r EXCEPT !.err = StackUnderflowError]
  ELSE [r EXCEPT !.st = SubSeq(r.st, 2, Len(r.st))]

\* Stack.pop: the stack after the pop; the value popped is StackTop(r)
StackPop(r) ==
  IF r.err # NoErr THEN r
  ELSE IF Len(r.st) = 0 THEN [r EXCEPT !.err = StackUnderflowError]
  ELSE [r EXCEPT !.st = SubSeq(r.st, 1, Len(r.st) - 1)]

\* variant of peek that removes the value it returns
StackPeekRemoves(r) ==
  IF r.err # NoErr THEN r
  ELSE IF Len(r.st) = 0 THEN [r EXCEPT !.err = StackUnderflowError]
  ELSE [r EXCEPT !.st = SubSeq(r.st, 1, Len(r.st) - 1)]

\* Stack.peek: fails on an empty stack and changes nothing otherwise
StackPeek(r) ==
  IF r.err # NoErr THEN r
  ELSE IF Len(r.st) = 0 THEN [r EXCEPT !.err = StackUnderflowError]
  ELSE r

\* the value pop() or peek() returns
StackTop(r) == IF Len(r.st) > 0 THEN r.st[Len(r.st)] ELSE Undefined

\* Stack.depth
Depth(items) == Len(items)

\* variant of clear that leaves the items in place
StackClearKeeps(items) == items

\* Stack.clear
StackClear(items) == << >>

\* Stack.snapshot: a copy of the items, bottom to top
StackSnapshot(items) == [i \in 1..Len(items) |-> items[i]]

(***************************************************************************)
(* Arithmetic and comparison of the CORE words (core/arithmetic.ts), with  *)
(* the JavaScript number semantics on numbers, booleans and NaN.           *)
(***************************************************************************)
InRange(n) == n >= 0 - MaxVal /\ n <= MaxVal

\* a % b: truncated remainder, sign of the dividend, NaN for b = 0
JsRem(a, b) == IF a < 0 THEN 0 - (Abs(a) % Abs(b)) ELSE a % Abs(b)

\* [v |-> result value, oor |-> outside the modelled numbers]
Arith(fn, a, b) ==
  LET x == ToNumber(a)
      y == ToNumber(b)
      nan == IsNaN(a) \/ IsNaN(b)
      num(n) == [v |-> Num(n), oor |-> ~InRange(n)]
      val(v) == [v |-> v, oor |-> FALSE]
  IN CASE fn = "ADD" -> IF nan THEN val(NaN) ELSE num(x + y)
       [] fn = "SUB" -> IF nan THEN val(NaN) ELSE num(x - y)
       [] fn = "MUL" -> IF nan THEN val(NaN) ELSE num(x * y)
       [] fn = "DIV" -> IF nan THEN val(NaN)
                        ELSE IF y = 0 THEN (IF x = 0 THEN val(NaN) ELSE [v |-> NaN, oor |-> TRUE])
                        ELSE IF JsRem(x, y) = 0
                             THEN num((IF (x < 0) = (y < 0) THEN 1 ELSE 0 - 1) * (Abs(x) \div Abs(y)))
                             ELSE [v |-> NaN, oor |-> TRUE]
       [] fn = "MOD" -> IF nan \/ y = 0 THEN val(NaN) ELSE num(JsRem(x, y))
       [] fn = "EQ" -> val(Bool(~nan /\ a.t = b.t /\ x = y))
       [] fn = "LT" -> val(Bool(~nan /\ x < y))
       [] fn = "GT" -> val(Bool(~nan /\ x > y))
       [] fn = "LTE" -> val(Bool(~nan /\ x <= y))
       [] fn = "GTE" -> val(Bool(~nan /\ x >= y))

\* variant of a binary word that takes the top value as the left operand
BinaryOpSwapped(fn, r, maxDepth) ==
  LET r1 == StackPop(r)
      a == StackTop(r)
      r2 == StackPop(r1)
      b == StackTop(r1)
      res == Arith(fn, a, b)
      r3 == StackPush(r2, res.v, maxDepth)
  IN IF r2.err # NoErr THEN r2 ELSE [r3 EXCEPT !.oor = r.oor \/ res.oor]

\* body of a binary word: b = pop(), a = pop(), push(a op b)
BinaryOp(fn, r, maxDepth) ==
  LET r1 == StackPop(r)
      b == StackTop(r)
      r2 == StackPop(r1)
      a == StackTop(r1)
      res == Arith(fn, a, b)
      r3 == StackPush(r2, res.v, maxDepth)
  IN IF r2.err # NoErr THEN r2 ELSE [r3 EXCEPT !.oor = r.oor \/ res.oor]

(***************************************************************************)
(* Stack manipulation words (core/stack-ops.ts)                            *)
(***************************************************************************)
DUP(r, maxDepth) ==
  LET r1 == StackPeek(r) IN StackPush(r1, StackTop(r), maxDepth)

DROP(r, maxDepth) == StackPop(r)

SWAP(r, maxDepth) ==
  LET r1 == StackPop(r)
      b == StackTop(r)
      r2 == StackPop(r1)
      a == StackTop(r1)
  IN StackPush(StackPush(r2, b, maxDepth), a, maxDepth)

OVER(r, maxDepth) ==
  LET r1 == StackPop(r)
      b == StackTop(r)
      r2 == StackPeek(r1)
      a == StackTop(r1)
  IN StackPush(StackPush(r2, b, maxDepth), a, maxDepth)

\* variant of ROT that rotates the other way: ( a b c -- c a b )
ROTBackwards(r, maxDepth) ==
  LET r1 == StackPop(r)
      c == StackTop(r)
      r2 == StackPop(r1)
      b == StackTop(r1)
      r3 == StackPop(r2)
      a == StackTop(r2)
  IN StackPush(StackPush(StackPush(r3, c, maxDepth), a, maxDepth), b, maxDepth)

ROT(r, maxDepth) ==
  LET r1 == StackPop(r)
      c == StackTop(r)
      r2 == StackPop(r1)
      b == StackTop(r1)
      r3 == StackPop(r2)
      a == StackTop(r2)
  IN StackPush(StackPush(StackPush(r3, b, maxDepth), c, maxDepth), a, maxDepth)

TWODUP(r, maxDepth) ==
  LET r1 == StackPop(r)
      b == StackTop(r)
      r2 == StackPop(r1)
      a == StackTop(r1)
  IN StackPush(StackPush(StackPush(StackPush(r2, a, maxDepth), b, maxDepth),
                         a, maxDepth), b, maxDepth)

TWODROP(r, maxDepth) == StackPop(StackPop(r))

TWOSWAP(r, maxDepth) ==
  LET r1 == StackPop(r)
      d == StackTop(r)
      r2 == StackPop(r1)
      c == StackTop(r1)
      r3 == StackPop(r2)
      b == StackTop(r2)
      r4 == StackPop(r3)
      a == StackTop(r3)
  IN StackPush(StackPush(StackPush(StackPush(r4, c, maxDepth), d, maxDepth),
                         a, maxDepth), b, maxDepth)

\* calling the native function of a word: word.body(vm)
Native(fn, r, maxDepth) ==
  CASE fn = "DUP" -> DUP(r, maxDepth)
    [] fn = "DROP" -> DROP(r, maxDepth)
    [] fn = "SWAP" -> SWAP(r, maxDepth)
    [] fn = "OVER" -> OVER(r, maxDepth)
    [] fn = "ROT" -> ROT(r, maxDepth)
    [] fn = "TWODUP" -> TWODUP(r, maxDepth)
    [] fn = "TWODROP" -> TWODROP(r, maxDepth)
    [] fn = "TWOSWAP" -> TWOSWAP(r, maxDepth)
    [] OTHER -> BinaryOp(fn, r, maxDepth)

(***************************************************************************)
(* Words (word.ts).  A body is a native function or a list of tokens.      *)
(***************************************************************************)
NativeBody(fn) == [kind |-> "native", fn |-> fn, tokens |-> << >>]
CompiledBody(tokens) == [kind |-> "compiled", fn |-> "", tokens |-> tokens]

\* new Date(): the wall clock is not modelled, every Date is the same value
Date == "Date"

\* the WordMetadata object literal { defined: new Date(), usageCount: 0 }
NewMetadata == [defined |-> Date, usageCount |-> 0, documentation |-> None,
                previousDefinitions |-> None]

\* the Word constants of core/stack-ops.ts and core/arithmetic.ts, in the
\* order of CoreWords; the metadata object of the i-th one has id i
CoreSpecs == <<
  [name |-> "DUP", fn |-> "DUP", stackEffect |-> "( n -- n n )"],
  [name |-> "DROP", fn |-> "DROP", stackEffect |-> "( n -- )"],
  [name |-> "SWAP", fn |-> "SWAP", stackEffect |-> "( a b -- b a )"],
  [name |-> "OVER", fn |-> "OVER", stackEffect |-> "( a b -- a b a )"],
  [name |-> "ROT", fn |-> "ROT", stackEffect |-> "( a b c -- b c a )"],
  [name |-> "2DUP", fn |-> "TWODUP", stackEffect |-> "( a b -- a b a b )"],
  [name |-> "2DROP", fn |-> "TWODROP", stackEffect |-> "( a b -- )"],
  [name |-> "2SWAP", fn |-> "TWOSWAP", stackEffect |-> "( a b c d -- c d a b )"],
  [name |-> "+", fn |-> "ADD", stackEffect |-> "( a b -- sum )"],
  [name |-> "-", fn |-> "SUB", stackEffect |-> "( a b -- difference )"],
  [name |-> "*", fn |-> "MUL", stackEffect |-> "( a b -- product )"],
  [name |-> "/", fn |-> "DIV", stackEffect |-> "( a b -- quotient )"],
  [name |-> "MOD", fn |-> "MOD", stackEffect |-> "( a b -- remainder )"],
  [name |-> "=", fn |-> "EQ", stackEffect |-> "( a b -- bool )"],
  [name |-> "<", fn |-> "LT", stackEffect |-> "( a b -- bool )"],
  [name |-> ">", fn |-> "GT", stackEffect |-> "( a b -- bool )"],
  [name |-> "<=", fn |-> "LTE", stackEffect |-> "( a b -- bool )"],
  [name |-> ">=", fn |-> "GTE", stackEffect |-> "( a b -- bool )"] >>

CoreWords ==
  [i \in 1..Len(CoreSpecs) |->
     [name |-> CoreSpecs[i].name, stackEffect |-> CoreSpecs[i].stackEffect,
      body |-> NativeBody(CoreSpecs[i].fn), immediate |-> FALSE, protected |-> TRUE,
      category |-> "CORE", metadata |-> i]]

CoreMetadata ==
  [i \in 1..Len(CoreSpecs) |-> [NewMetadata EXCEPT !.documentation = Some(CoreSpecs[i].fn)]]

CoreNames == {CoreSpecs[i].name : i \in 1..Len(CoreSpecs)}

\* a Word object handed to define() as its Partial<Word> argument
PartialOf(word) ==
  [name |-> Some(word.name),
   stackEffect |-> Some(word.stackEffect), body |-> Some(word.body),
   immediate |-> Some(word.immediate), protected |-> Some(word.protected),
   category |-> Some(word.category), metadata |-> Some(word.metadata)]

\* the Partial<Word> object literal { body: tokens }
WordOf(tokens) ==
  [name |-> None,
   stackEffect |-> None, body |-> Some(CompiledBody(tokens)), immediate |-> None,
   protected |-> None, category |-> None, metadata |-> None]

(***************************************************************************)
(* Dictionary (dictionary.ts).  d.words is the Map (a function whose       *)
(* domain is the set of keys), d.definitionOrder the list of names, and m  *)
(* the heap of WordMetadata objects (a sequence indexed by object id).     *)
(***************************************************************************)
NewDictionary == [words |-> << >>, definitionOrder |-> << >>]

\* Dictionary.find
DictFind(d, name) == IF name \in DOMAIN d.words THEN Some(d.words[name]) ELSE None

\* variant of define in which word.name, when given, wins over the name argument
DictDefineUsesWordName(d, m, name, word) ==
  LET existing == DictFind(d, name)
      fresh == ~word.metadata.has
      m1 == IF fresh THEN Append(m, NewMetadata) ELSE m
      mid == IF fresh THEN Len(m) + 1 ELSE word.metadata.v
      completeWord ==
        [name |-> IF word.name.has THEN word.name.v ELSE name,
         stackEffect |-> IF word.stackEffect.has THEN word.stackEffect.v ELSE "( -- )",
         body |-> IF word.body.has THEN word.body.v ELSE CompiledBody(<< >>),
         immediate |-> IF word.immediate.has THEN word.immediate.v ELSE FALSE,
         protected |-> IF word.protected.has THEN word.protected.v ELSE FALSE,
         category |-> IF word.category.has THEN word.category.v ELSE "USER",
         metadata |-> mid]
      prev == IF m1[mid].previousDefinitions.has THEN m1[mid].previousDefinitions.v ELSE << >>
      m2 == IF existing.has
            THEN [m1 EXCEPT ![mid].previousDefinitions =
                     Some(Append(prev, [timestamp |-> Date, definition |-> existing.v]))]
            ELSE m1
      order == IF existing.has THEN d.definitionOrder ELSE Append(d.definitionOrder, name)
  IN IF existing.has /\ existing.v.protected
     THEN [d |-> d, m |-> m, err |-> PlainError("Cannot redefine protected word", name)]
     ELSE [d |-> [words |-> [n \in DOMAIN d.words \cup {name} |->
                               IF n = name THEN completeWord ELSE d.words[n]],
                  definitionOrder |-> order],
           m |-> m2, err |-> NoErr]

\* variant of define that leaves an existing word in the map on a redefinition
DictDefineKeepsExisting(d, m, name, word) ==
  LET existing == DictFind(d, name)
      fresh == ~word.metadata.has
      m1 == IF fresh THEN Append(m, NewMetadata) ELSE m
      mid == IF fresh THEN Len(m) + 1 ELSE word.metadata.v
      completeWord ==
        [name |-> name,
         stackEffect |-> IF word.stackEffect.has THEN word.stackEffect.v ELSE "( -- )",
         body |-> IF word.body.has THEN word.body.v ELSE CompiledBody(<< >>),
         immediate |-> IF word.immediate.has THEN word.immediate.v ELSE FALSE,
         protected |-> IF word.protected.has THEN word.protected.v ELSE FALSE,
         category |-> IF word.category.has THEN word.category.v ELSE "USER",
         metadata |-> mid]
      order == IF existing.has THEN d.definitionOrder ELSE Append(d.definitionOrder, name)
  IN IF existing.has /\ existing.v.protected
     THEN [d |-> d, m |-> m, err |-> PlainError("Cannot redefine protected word", name)]
     ELSE [d |-> [words |-> [n \in DOMAIN d.words \cup {name} |->
                               IF n = name /\ ~existing.has THEN completeWord
                               ELSE IF n = name THEN existing.v ELSE d.words[n]],
                  definitionOrder |-> order],
           m |-> m1, err |-> NoErr]

\* variant of define that starts previousDefinitions anew on a redefinition
DictDefineForgetsHistory(d, m, name, word) ==
  LET existing == DictFind(d, name)
      fresh == ~word.metadata.has
      m1 == IF fresh THEN Append(m, NewMetadata) ELSE m
      mid == IF fresh THEN Len(m) + 1 ELSE word.metadata.v
      completeWord ==
        [name |-> name,
         stackEffect |-> IF word.stackEffect.has THEN word.stackEffect.v ELSE "( -- )",
         body |-> IF word.body.has THEN word.body.v ELSE CompiledBody(<< >>),
         immediate |-> IF word.immediate.has THEN word.immediate.v ELSE FALSE,
         protected |-> IF word.protected.has THEN word.protected.v ELSE FALSE,
         category |-> IF word.category.has THEN word.category.v ELSE "USER",
         metadata |-> mid]
      m2 == IF existing.has
            THEN [m1 EXCEPT ![mid].previousDefinitions =
                     Some(<< [timestamp |-> Date, definition |-> existing.v] >>)]
            ELSE m1
      order == IF existing.has THEN d.definitionOrder ELSE Append(d.definitionOrder, name)
  IN IF existing.has /\ existing.v.protected
     THEN [d |-> d, m |-> m, err |-> PlainError("Cannot redefine protected word", name)]
     ELSE [d |-> [words |-> [n \in DOMAIN d.words \cup {name} |->
                               IF n = name THEN completeWord ELSE d.words[n]],
                  definitionOrder |-> order],
           m |-> m2, err |-> NoErr]

\* Dictionary.define: [d, m, err] after the call
DictDefine(d, m, name, word) ==
  LET existing == DictFind(d, name)
      fresh == ~word.metadata.has
      m1 == IF fresh THEN Append(m, NewMetadata) ELSE m
      mid == IF fresh THEN Len(m) + 1 ELSE word.metadata.v
      completeWord ==
        [name |-> name,
         stackEffect |-> IF word.stackEffect.has THEN word.stackEffect.v ELSE "( -- )",
         body |-> IF word.body.has THEN word.body.v ELSE CompiledBody(<< >>),
         immediate |-> IF word.immediate.has THEN word.immediate.v ELSE FALSE,
         protected |-> IF word.protected.has THEN word.protected.v ELSE FALSE,
         category |-> IF word.category.has THEN word.category.v ELSE "USER",
         metadata |-> mid]
      prev == IF m1[mid].previousDefinitions.has THEN m1[mid].previousDefinitions.v ELSE << >>
      m2 == IF existing.has
            THEN [m1 EXCEPT ![mid].previousDefinitions =
                     Some(Append(prev, [timestamp |-> Date, definition |-> existing.v]))]
            ELSE m1
      order == IF existing.has THEN d.definitionOrder ELSE Append(d.definitionOrder, name)
  IN IF existing.has /\ existing.v.protected
     THEN [d |-> d, m |-> m, err |-> PlainError("Cannot redefine protected word", name)]
     ELSE [d |-> [words |-> [n \in DOMAIN d.words \cup {name} |->
                               IF n = name THEN completeWord ELSE d.words[n]],
                  definitionOrder |-> order],
           m |-> m2, err |-> NoErr]

\* variant of forget without the check for a protected word
DictForgetUnprotected(d, name) ==
  LET word == DictFind(d, name)
  IN IF ~word.has THEN [d |-> d, err |-> PlainError("Cannot forget unknown word", name)]
     ELSE [d |-> [words |-> [n \in DOMAIN d.words \ {name} |-> d.words[n]],
                  definitionOrder |-> SelectSeq(d.definitionOrder, LAMBDA n : n # name)],
           err |-> NoErr]

\* variant of forget that leaves the name in definitionOrder
DictForgetKeepsOrder(d, name) ==
  LET word == DictFind(d, name)
  IN IF ~word.has THEN [d |-> d, err |-> PlainError("Cannot forget unknown word", name)]
     ELSE IF word.v.protected
     THEN [d |-> d, err |-> PlainError("Cannot forget protected word", name)]
     ELSE [d |-> [words |-> [n \in DOMAIN d.words \ {name} |-> d.words[n]],
                  definitionOrder |-> d.definitionOrder],
           err |-> NoErr]

\* Dictionary.forget: [d, err] after the call
DictForget(d, name) ==
  LET word == DictFind(d, name)
      order == d.definitionOrder
      found == {i \in 1..Len(order) : order[i] = name}
      index == CHOOSE i \in found : \A j \in found : i <= j
  IN IF ~word.has THEN [d |-> d, err |-> PlainError("Cannot forget unknown word", name)]
     ELSE IF word.v.protected
     THEN [d |-> d, err |-> PlainError("Cannot forget protected word", name)]
     ELSE [d |-> [words |-> [n \in DOMAIN d.words \ {name} |-> d.words[n]],
                  definitionOrder |->
                    IF found = {} THEN order
                    ELSE SubSeq(order, 1, index - 1) \o SubSeq(order, index + 1, Len(order))],
           err |-> NoErr]

\* variant of list that ignores the category filter
DictListUnfiltered(d, filter) == [i \in 1..Len(d.definitionOrder) |-> d.definitionOrder[i]]

\* Dictionary.list
DictList(d, filter) ==
  IF ~filter.has THEN [i \in 1..Len(d.definitionOrder) |-> d.definitionOrder[i]]
  ELSE SelectSeq(d.definitionOrder,
                 LAMBDA n : n \in DOMAIN d.words /\ d.words[n].category = filter.v)

(***************************************************************************)
(* Tokens and source text.  A token is a string; a source text is the      *)
(* sequence of its lexemes, where " " stands for a run of whitespace       *)
(* characters and every other lexeme for a run of non-whitespace ones.     *)
(***************************************************************************)
\* Number(token): the numeric value of a numeral, NaN for anything else
Number(token) ==
  CASE token = "" -> Num(0)
    [] token = "0" -> Num(0)
    [] token = "1" -> Num(1)
    [] token = "2" -> Num(2)
    [] token = "3" -> Num(3)
    [] token = "5" -> Num(5)
    [] token = "-1" -> Num(0 - 1)
    [] OTHER -> NaN

IsWhitespace(lexeme) == lexeme = " "

RECURSIVE TrimStart(_)
TrimStart(code) ==
  IF Len(code) > 0 /\ IsWhitespace(Head(code)) THEN TrimStart(Tail(code)) ELSE code

RECURSIVE TrimEnd(_)
TrimEnd(code) ==
  IF Len(code) > 0 /\ IsWhitespace(code[Len(code)])
  THEN TrimEnd(SubSeq(code, 1, Len(code) - 1)) ELSE code

\* code.split(/\s+/): the segments between runs of whitespace; cur is the
\* segment being read ("" while none has started)
RECURSIVE Split(_, _, _, _)
Split(code, i, cur, acc) ==
  IF i > Len(code) THEN Append(acc, cur)
  ELSE IF IsWhitespace(code[i])
       THEN IF i > 1 /\ IsWhitespace(code[i - 1])
            THEN Split(code, i + 1, cur, acc)
            ELSE Split(code, i + 1, "", Append(acc, cur))
       ELSE Split(code, i + 1, code[i], acc)

\* VM.parse: code.trim().split(/\s+/).filter(token => token.length > 0)
Parse(code) ==
  SelectSeq(Split(TrimEnd(TrimStart(code)), 1, "", << >>), LAMBDA token : token # "")

(***************************************************************************)
(* VM.execute and VM.run (vm.ts).  d is the dictionary of the VM, maxDepth *)
(* the bound of its data stack, fuel the number of nested execute() calls  *)
(* the host still allows.                                                  *)
(***************************************************************************)
ByName(name) == [isName |-> TRUE, name |-> name]
ByWord(word) == [isName |-> FALSE, word |-> word]

RECURSIVE Execute(_, _, _, _, _)
RECURSIVE ExecuteBody(_, _, _, _, _, _)

\* variant of the body loop that stops after the first token
ExecuteBodyFirstOnly(tokens, i, r, d, maxDepth, fuel) ==
  IF i > Len(tokens) \/ i > 1 \/ r.err # NoErr THEN r
  ELSE LET num == Number(tokens[i])
       IN IF ~IsNaN(num) THEN StackPush(r, num, maxDepth)
          ELSE Execute(ByName(tokens[i]), r, d, maxDepth, fuel)

\* variant of the body loop that looks a token up before converting it
ExecuteBodyWordsFirst(tokens, i, r, d, maxDepth, fuel) ==
  IF i > Len(tokens) \/ r.err # NoErr THEN r
  ELSE LET num == Number(tokens[i])
           r1 == IF IsNaN(num) \/ DictFind(d, tokens[i]).has
                 THEN Execute(ByName(tokens[i]), r, d, maxDepth, fuel)
                 ELSE StackPush(r, num, maxDepth)
       IN ExecuteBody(tokens, i + 1, r1, d, maxDepth, fuel)

\* the loop over a compiled body, from token i on
ExecuteBody(tokens, i, r, d, maxDepth, fuel) ==
  IF i > Len(tokens) \/ r.err # NoErr THEN r
  ELSE LET num == Number(tokens[i])
           r1 == IF ~IsNaN(num) THEN StackPush(r, num, maxDepth)
                 ELSE Execute(ByName(tokens[i]), r, d, maxDepth, fuel)
       IN ExecuteBody(tokens, i + 1, r1, d, maxDepth, fuel)

\* variant of execute that treats a missing word as a no-op
ExecuteIgnoreMissing(wordOrName, r, d, maxDepth, fuel) ==
  IF r.err # NoErr THEN r
  ELSE IF fuel = 0 THEN [r EXCEPT !.err = RangeError]
  ELSE LET found == IF wordOrName.isName THEN DictFind(d, wordOrName.name)
                    ELSE Some(wordOrName.word)
       IN IF ~found.has THEN r
          ELSE IF found.v.body.kind = "native"
          THEN Native(found.v.body.fn, r, maxDepth)
          ELSE ExecuteBody(found.v.body.tokens, 1, r, d, maxDepth, fuel - 1)

\* variant of execute that reports a failure inside a compiled body as a
\* failure of the enclosing word
ExecuteWrapsError(wordOrName, r, d, maxDepth, fuel) ==
  IF r.err # NoErr THEN r
  ELSE IF fuel = 0 THEN [r EXCEPT !.err = RangeError]
  ELSE LET found == IF wordOrName.isName THEN DictFind(d, wordOrName.name)
                    ELSE Some(wordOrName.word)
       IN IF ~found.has THEN [r EXCEPT !.err = WordNotFoundError(wordOrName.name)]
          ELSE IF found.v.body.kind = "native"
          THEN Native(found.v.body.fn, r, maxDepth)
          ELSE LET res == ExecuteBody(found.v.body.tokens, 1, r, d, maxDepth, fuel - 1)
               IN IF res.err # NoErr /\ wordOrName.isName
                  THEN [res EXCEPT !.err = WordNotFoundError(wordOrName.name)]
                  ELSE res

\* VM.execute(wordOrName)
Execute(wordOrName, r, d, maxDepth, fuel) ==
  IF r.err # NoErr THEN r
  ELSE IF fuel = 0 THEN [r EXCEPT !.err = RangeError]
  ELSE LET found == IF wordOrName.isName THEN DictFind(d, wordOrName.name)
                    ELSE Some(wordOrName.word)
       IN IF ~found.has THEN [r EXCEPT !.err = WordNotFoundError(wordOrName.name)]
          ELSE IF found.v.body.kind = "native"
          THEN Native(found.v.body.fn, r, maxDepth)
          ELSE ExecuteBody(found.v.body.tokens, 1, r, d, maxDepth, fuel - 1)

\* variant of the run loop that restores the stack when a token fails
RECURSIVE RunLoopCopy(_, _, _, _, _)
RunLoopCopy(tokens, i, r, d, maxDepth) ==
  IF i > Len(tokens) \/ r.err # NoErr THEN r
  ELSE LET num == Number(tokens[i])
           r1 == IF ~IsNaN(num) THEN StackPush(r, num, maxDepth)
                 ELSE Execute(ByName(tokens[i]), r, d, maxDepth, MaxFuel)
       IN RunLoopCopy(tokens, i + 1, r1, d, maxDepth)

RunTokensRollback(tokens, i, r, d, maxDepth) ==
  LET res == RunLoopCopy(tokens, i, r, d, maxDepth)
  IN IF res.err # NoErr THEN [res EXCEPT !.st = r.st] ELSE res

\* variant of the run loop that looks every token up, numerals included
RECURSIVE RunTokensNoLiteral(_, _, _, _, _)
RunTokensNoLiteral(tokens, i, r, d, maxDepth) ==
  IF i > Len(tokens) \/ r.err # NoErr THEN r
  ELSE RunTokensNoLiteral(tokens, i + 1,
                          Execute(ByName(tokens[i]), r, d, maxDepth, MaxFuel), d, maxDepth)

\* the loop of VM.run over the parsed tokens, from token i on
RECURSIVE RunTokens(_, _, _, _, _)
RunTokens(tokens, i, r, d, maxDepth) ==
  IF i > Len(tokens) \/ r.err # NoErr THEN r
  ELSE LET num == Number(tokens[i])
           r1 == IF ~IsNaN(num) THEN StackPush(r, num, maxDepth)
                 ELSE Execute(ByName(tokens[i]), r, d, maxDepth, MaxFuel)
       IN RunTokens(tokens, i + 1, r1, d, maxDepth)

\* VM.run(code)
Run(code, r, d, maxDepth) == RunTokens(Parse(code), 1, r, d, maxDepth)

\* the names among tokens; with numerals, the tokens that convert to a
\* number count as names too
Named(tokens, numerals) ==
  {tokens[i] : i \in {j \in 1..Len(tokens) : numerals \/ IsNaN(Number(tokens[j]))}}

\* variant of run and execute that counts an execution in the metadata of
\* every word it looks up
DispatchedCounts(m, d, names) ==
  [i \in DOMAIN m |->
     IF \E n \in names \cap DOMAIN d.words : d.words[n].metadata = i
     THEN [m[i] EXCEPT !.usageCount = @ + 1] ELSE m[i]]

\* the WordMetadata objects after run or execute has looked up the words
\* names of d: it reads word.body and writes nothing
Dispatched(m, d, names) == m

(***************************************************************************)
(* VM.serialize and VM.deserialize (vm.ts).  A JSON text is the sequence   *)
(* of its lexemes: brackets, commas, and for every string a quote, the     *)
(* content and a quote.                                                    *)
(***************************************************************************)
NativeSentinel == << "__NATIVE__" >>

RECURSIVE StringifyElements(_, _)
StringifyElements(tokens, i) ==
  IF i > Len(tokens) THEN << >>
  ELSE (IF i > 1 THEN << "," >> ELSE << >>) \o << "\"", tokens[i], "\"" >>
       \o StringifyElements(tokens, i + 1)

\* JSON.stringify of a string[]
JSONStringify(tokens) == << "[" >> \o StringifyElements(tokens, 1) \o << "]" >>

RECURSIVE ParseElements(_, _, _)
ParseElements(text, i, acc) ==
  IF i > Len(text) \/ text[i] = "]" THEN acc
  ELSE IF text[i] = "," THEN ParseElements(text, i + 1, acc)
  ELSE ParseElements(text, i + 3, Append(acc, text[i + 1]))

\* variant of JSON.parse that loses the last element
JSONParseShort(text) ==
  LET all == ParseElements(text, 2, << >>)
  IN IF all = << >> THEN all ELSE SubSeq(all, 1, Len(all) - 1)

\* JSON.parse of the text of a string[]
JSONParse(text) == ParseElements(text, 2, << >>)

\* variant of the entry that leaves the stack effect out
SerializeWordNoEffect(word) ==
  [name |-> word.name, stackEffect |-> "( -- )",
   body |-> IF word.body.kind = "native" THEN NativeSentinel ELSE JSONStringify(word.body.tokens),
   immediate |-> word.immediate, metadata |-> word.metadata]

\* one entry of serializedWords
SerializeWord(word) ==
  [name |-> word.name, stackEffect |-> word.stackEffect,
   body |-> IF word.body.kind = "native" THEN NativeSentinel ELSE JSONStringify(word.body.tokens),
   immediate |-> word.immediate, metadata |-> word.metadata]

\* VM.serialize: items are the items of the data stack, d the dictionary
Serialize(items, d, config) ==
  LET userWords == DictList(d, Some("USER"))
  IN [version |-> "0.1.0", timestamp |-> Date, stack |-> StackSnapshot(items),
      dictionary |-> [i \in 1..Len(userWords) |-> SerializeWord(d.words[userWords[i]])],
      config |-> config]

RECURSIVE PushAll(_, _, _, _)
PushAll(values, i, r, maxDepth) ==
  IF i > Len(values) \/ r.err # NoErr THEN r
  ELSE PushAll(values, i + 1, StackPush(r, values[i], maxDepth), maxDepth)

\* variant of the loop that ends at the first native entry
RECURSIVE RestoreWordsUntilNative(_, _, _, _)
RestoreWordsUntilNative(list, i, d, m) ==
  IF i > Len(list) \/ list[i].body = NativeSentinel THEN [d |-> d, m |-> m, err |-> NoErr]
  ELSE LET def == DictDefine(d, m, list[i].name,
                    [name |-> None, stackEffect |-> Some(list[i].stackEffect),
                     body |-> Some(CompiledBody(JSONParse(list[i].body))),
                     immediate |-> Some(list[i].immediate),
                     protected |-> Some(FALSE),
                     category |-> Some("USER"),
                     metadata |-> Some(list[i].metadata)])
       IN IF def.err # NoErr THEN def ELSE RestoreWordsUntilNative(list, i + 1, def.d, def.m)

\* the loop of VM.deserialize over state.dictionary, from entry i on
RECURSIVE RestoreWords(_, _, _, _)
RestoreWords(list, i, d, m) ==
  IF i > Len(list) THEN [d |-> d, m |-> m, err |-> NoErr]
  ELSE IF list[i].body = NativeSentinel THEN RestoreWords(list, i + 1, d, m)
  ELSE LET def == DictDefine(d, m, list[i].name,
                    [name |-> None, stackEffect |-> Some(list[i].stackEffect),
                     body |-> Some(CompiledBody(JSONParse(list[i].body))),
                     immediate |-> Some(list[i].immediate),
                     protected |-> Some(FALSE),
                     category |-> Some("USER"),
                     metadata |-> Some(list[i].metadata)])
       IN IF def.err # NoErr THEN def ELSE RestoreWords(list, i + 1, def.d, def.m)

\* variant of deserialize that changes nothing when it fails
DeserializeAllOrNothing(state, items, d, m, maxDepth) ==
  LET r == PushAll(state.stack, 1, Result(StackClear(items)), maxDepth)
      w == RestoreWords(state.dictionary, 1, d, m)
  IN IF r.err # NoErr THEN [st |-> items, d |-> d, m |-> m, err |-> r.err]
     ELSE IF w.err # NoErr THEN [st |-> items, d |-> d, m |-> m, err |-> w.err]
     ELSE [st |-> r.st, d |-> w.d, m |-> w.m, err |-> NoErr]

\* VM.deserialize: [st, d, m, err] after the call; items are the items of
\* the data stack before it
Deserialize(state, items, d, m, maxDepth) ==
  LET r == PushAll(state.stack, 1, Result(StackClear(items)), maxDepth)
      w == RestoreWords(state.dictionary, 1, d, m)
  IN IF r.err # NoErr THEN [st |-> r.st, d |-> d, m |-> m, err |-> r.err]
     ELSE [st |-> r.st, d |-> w.d, m |-> w.m, err |-> w.err]

\* variant of the loop that copies the words of category USER only
RECURSIVE CopyWordsUserOnly(_, _, _, _, _)
CopyWordsUserOnly(allWords, i, from, d, m) ==
  IF i > Len(allWords) THEN [d |-> d, m |-> m, err |-> NoErr]
  ELSE IF from.words[allWords[i]].category # "USER"
  THEN CopyWordsUserOnly(allWords, i + 1, from, d, m)
  ELSE LET def == DictDefine(d, m, allWords[i], PartialOf(from.words[allWords[i]]))
       IN IF def.err # NoErr THEN def
          ELSE CopyWordsUserOnly(allWords, i + 1, from, def.d, def.m)

\* the first loop of VM.clone: define every word on the new dictionary
RECURSIVE CopyWords(_, _, _, _, _)
CopyWords(allWords, i, from, d, m) ==
  IF i > Len(allWords) THEN [d |-> d, m |-> m, err |-> NoErr]
  ELSE LET def == DictDefine(d, m, allWords[i], PartialOf(from.words[allWords[i]]))
       IN IF def.err # NoErr THEN def ELSE CopyWords(allWords, i + 1, from, def.d, def.m)

(***************************************************************************)
(* Arrays the caller holds.  An array that a call returned is a record     *)
(* [kind, ref, items]: ref is 0 for an array nobody else refers to, the id *)
(* of a Stack when the array is that Stack's items array, and the id of a  *)
(* Dictionary when it is that Dictionary's definitionOrder array.          *)
(***************************************************************************)
NoArray == [kind |-> "none", ref |-> 0, items |-> << >>]

\* variant of snapshot() that returns the items array itself
StackSnapshotShared(sid, items) ==
  [kind |-> "snapshot", ref |-> sid, items |-> items]

\* the array snapshot() of Stack sid returns: [...this.items], a new array
StackSnapshotArray(sid, items) ==
  [kind |-> "snapshot", ref |-> 0, items |-> StackSnapshot(items)]

\* variant of list() that returns the definitionOrder array itself
DictListShared(did, d, filter) ==
  [kind |-> "list", ref |-> IF filter.has THEN 0 ELSE did, items |-> DictList(d, filter)]

\* the array list(filter) of Dictionary did returns: [...this.definitionOrder]
\* or the result of filter(), a new array in both cases
DictListArray(did, d, filter) ==
  [kind |-> "list", ref |-> 0, items |-> DictList(d, filter)]

\* the array a once it is seen through the objects st and di: an array that
\* is the storage of an object shows what the object holds
Synced(a, st, di) ==
  IF a.ref = 0 THEN a
  ELSE IF a.kind = "snapshot" THEN [a EXCEPT !.items = st[a.ref].items]
  ELSE [a EXCEPT !.items = di[a.ref].definitionOrder]

\* the array a after Stack sid has replaced its items array by a new one
Detached(a, sid) ==
  IF a.kind = "snapshot" /\ a.ref = sid THEN [a EXCEPT !.ref = 0] ELSE a

(***************************************************************************)
(* State.  vms maps a VM (1: the original, 2: its clone or a second        *)
(* bootstrapped VM) to the ids of its Stack and Dictionary objects;        *)
(* stacks, dicts and meta are the heaps of Stack, Dictionary and           *)
(* WordMetadata objects; held is the VMState object the caller keeps from  *)
(* the last serialize(), snap the array it keeps from the last snapshot()  *)
(* or list(); last describes the call that has just returned;              *)
(* steps counts the calls.  hist is a history variable: the VM that held   *)
(* was serialized from, the pairs << u, v >> for which v has deserialized  *)
(* a state serialized from u, and the items that the data stack held when  *)
(* the last deserialize began.  frames is the host call stack of a run or  *)
(* execute that is interpreted token by token: one frame for the loop of   *)
(* run and one for every invocation of execute that is inside the loop     *)
(* over a compiled body, the innermost last; it is empty while no such     *)
(* call is in progress.                                                    *)
(***************************************************************************)
VARIABLES vms, stacks, dicts, meta, held, snap, last, steps, hist, frames

vars == << vms, stacks, dicts, meta, held, snap, last, steps, hist, frames >>

Config == [stackDepth |-> Some(StackDepth), returnStackDepth |-> Some(ReturnStackDepth)]

\* new Stack(maxDepth)
NewStack(maxDepth) == [items |-> << >>, maxDepth |-> maxDepth]

\* the Stack and Dictionary objects that new VM(config) creates
NewVMStacks(config) ==
  << NewStack(IF config.stackDepth.has THEN config.stackDepth.v ELSE DefaultMaxDepth),
     NewStack(IF config.returnStackDepth.has THEN config.returnStackDepth.v
              ELSE DefaultMaxDepth) >>

\* new VM(config), whose objects get the ids sid, sid + 1 and did
NewVM(config, sid, did) ==
  [dataStack |-> sid, returnStack |-> sid + 1, dictionary |-> did,
   tracing |-> FALSE, trace |-> << >>, config |-> config]

\* the loop of bootstrapVM: define every CORE word
RECURSIVE BootstrapWords(_, _, _)
BootstrapWords(i, d, m) ==
  IF i > Len(CoreWords) THEN [d |-> d, m |-> m, err |-> NoErr]
  ELSE LET def == DictDefine(d, m, CoreWords[i].name, PartialOf(CoreWords[i]))
       IN IF def.err # NoErr THEN def ELSE BootstrapWords(i + 1, def.d, def.m)

Call(op, v, name, code, err, ret) ==
  [op |-> op, vm |-> v, name |-> name, code |-> code, err |-> err, ret |-> ret]

Init ==
  /\ vms = [v \in {1} |-> NewVM(Config, 1, 1)]
  /\ stacks = NewVMStacks(Config)
  /\ dicts = << BootstrapWords(1, NewDictionary, CoreMetadata).d >>
  /\ meta = CoreMetadata
  /\ held = None
  /\ snap = NoArray
  /\ frames = << >>
  /\ last = Call("bootstrapVM", 1, "", << >>, NoErr, Undefined)
  /\ steps = 0
  /\ hist = [heldFrom |-> 0, restored |-> {}, replaced |-> << >>]

\* accessors
DataStack(v) == stacks[vms[v].dataStack]
ReturnStack(v) == stacks[vms[v].returnStack]
Dict(v) == dicts[vms[v].dictionary]

\* the bounds on the heap of metadata objects
MetaBounded(m) ==
  /\ Len(m) <= Len(CoreMetadata) + MaxMeta
  /\ \A i \in 1..Len(m) :
       m[i].previousDefinitions.has => Len(m[i].previousDefinitions.v) <= MaxPrev

(***************************************************************************)
(* Calls on the data stack of a VM                                         *)
(***************************************************************************)
\* vm.dataStack.push(x)
Push(v, x) ==
  /\ steps < MaxSteps /\ v \in DOMAIN vms
  /\ LET r == StackPush(Result(DataStack(v).items), x, DataStack(v).maxDepth)
     IN /\ stacks' = [stacks EXCEPT ![vms[v].dataStack].items = r.st]
        /\ last' = Call("push", v, "", << >>, r.err, Undefined)
  /\ steps' = steps + 1
  /\ UNCHANGED << vms, dicts, meta, held, hist, frames >>
  /\ snap' = Synced(snap, stacks', dicts')

\* vm.dataStack.pop()
Pop(v) ==
  /\ steps < MaxSteps /\ v \in DOMAIN vms
  /\ LET r0 == Result(DataStack(v).items)
         r == StackPop(r0)
     IN /\ stacks' = [stacks EXCEPT ![vms[v].dataStack].items = r.st]
        /\ last' = Call("pop", v, "", << >>, r.err,
                        IF r.err = NoErr THEN StackTop(r0) ELSE Undefined)
  /\ steps' = steps + 1
  /\ UNCHANGED << vms, dicts, meta, held, hist, frames >>
  /\ snap' = Synced(snap, stacks', dicts')

\* vm.dataStack.peek()
Peek(v) ==
  /\ steps < MaxSteps /\ v \in DOMAIN vms
  /\ LET r0 == Result(DataStack(v).items)
         r == StackPeek(r0)
     IN /\ stacks' = [stacks EXCEPT ![vms[v].dataStack].items = r.st]
        /\ last' = Call("peek", v, "", << >>, r.err,
                        IF r.err = NoErr THEN StackTop(r0) ELSE Undefined)
  /\ steps' = steps + 1
  /\ UNCHANGED << vms, dicts, meta, held, hist, frames >>
  /\ snap' = Synced(snap, stacks', dicts')

\* vm.returnStack.push(x)
PushReturn(v, x) ==
  /\ steps < MaxSteps /\ v \in DOMAIN vms
  /\ LET r == StackPush(Result(ReturnStack(v).items), x, ReturnStack(v).maxDepth)
     IN /\ stacks' = [stacks EXCEPT ![vms[v].returnStack].items = r.st]
        /\ last' = Call("pushReturn", v, "", << >>, r.err, Undefined)
  /\ steps' = steps + 1
  /\ UNCHANGED << vms, dicts, meta, held, hist, frames >>
  /\ snap' = Synced(snap, stacks', dicts')

\* vm.dataStack.clear()
Clear(v) ==
  /\ steps < MaxSteps /\ v \in DOMAIN vms
  /\ stacks' = [stacks EXCEPT ![vms[v].dataStack].items = StackClear(@)]
  /\ last' = Call("clear", v, "", << >>, NoErr, Undefined)
  /\ steps' = steps + 1
  /\ UNCHANGED << vms, dicts, meta, held, hist, frames >>
  /\ snap' = Synced(Detached(snap, vms[v].dataStack), stacks', dicts')

(***************************************************************************)
(* Calls on the dictionary of a VM                                         *)
(***************************************************************************)
\* vm.dictionary.define(name, word); with literal the caller passes a new
\* metadata object literal instead of word.metadata
Define(v, name, word, literal) ==
  /\ steps < MaxSteps /\ v \in DOMAIN vms
  /\ LET m0 == IF literal THEN Append(meta, NewMetadata) ELSE meta
         w0 == IF literal THEN [word EXCEPT !.metadata = Some(Len(meta) + 1)] ELSE word
         def == DictDefine(Dict(v), m0, name, w0)
     IN /\ MetaBounded(def.m)
        /\ dicts' = [dicts EXCEPT ![vms[v].dictionary] = def.d]
        /\ meta' = IF def.err = NoErr THEN def.m ELSE meta
        /\ last' = Call("define", v, name, << >>, def.err, Undefined)
  /\ steps' = steps + 1
  /\ UNCHANGED << vms, stacks, held, hist, frames >>
  /\ snap' = Synced(snap, stacks', dicts')

\* vm.dictionary.forget(name)
Forget(v, name) ==
  /\ steps < MaxSteps /\ v \in DOMAIN vms
  /\ LET res == DictForget(Dict(v), name)
     IN /\ dicts' = [dicts EXCEPT ![vms[v].dictionary] = res.d]
        /\ last' = Call("forget", v, name, << >>, res.err, Undefined)
  /\ steps' = steps + 1
  /\ UNCHANGED << vms, stacks, meta, held, hist, frames >>
  /\ snap' = Synced(snap, stacks', dicts')

(***************************************************************************)
(* Calls on a VM                                                           *)
(***************************************************************************)
\* vm.run(code)
RunCode(v, code) ==
  /\ steps < MaxSteps /\ v \in DOMAIN vms
  /\ LET r == Run(code, Result(DataStack(v).items), Dict(v), DataStack(v).maxDepth)
     IN /\ ~r.oor
        /\ stacks' = [stacks EXCEPT ![vms[v].dataStack].items = r.st]
        /\ last' = Call("run", v, "", code, r.err, Undefined)
  /\ steps' = steps + 1
  /\ meta' = Dispatched(meta, Dict(v), Named(Parse(code), FALSE))
  /\ UNCHANGED << vms, dicts, held, hist, frames >>
  /\ snap' = Synced(snap, stacks', dicts')

\* vm.execute(name)
ExecuteName(v, name) ==
  /\ steps < MaxSteps /\ v \in DOMAIN vms
  /\ LET r == Execute(ByName(name), Result(DataStack(v).items), Dict(v),
                      DataStack(v).maxDepth, MaxFuel)
     IN /\ ~r.oor
        /\ stacks' = [stacks EXCEPT ![vms[v].dataStack].items = r.st]
        /\ last' = Call("execute", v, name, << >>, r.err, Undefined)
  /\ steps' = steps + 1
  /\ meta' = Dispatched(meta, Dict(v), {name})
  /\ UNCHANGED << vms, dicts, held, hist, frames >>
  /\ snap' = Synced(snap, stacks', dicts')

\* vm.execute(word) with a Word object whose compiled body is tokens
ExecuteWord(v, tokens) ==
  /\ steps < MaxSteps /\ v \in DOMAIN vms
  /\ LET word == [name |-> "", stackEffect |-> "( -- )", body |-> CompiledBody(tokens),
                  immediate |-> FALSE, protected |-> FALSE, category |-> "USER",
                  metadata |-> 0]
         r == Execute(ByWord(word), Result(DataStack(v).items), Dict(v),
                      DataStack(v).maxDepth, MaxFuel)
     IN /\ ~r.oor
        /\ stacks' = [stacks EXCEPT ![vms[v].dataStack].items = r.st]
        /\ last' = Call("executeWord", v, "", tokens, r.err, Undefined)
  /\ steps' = steps + 1
  /\ meta' = Dispatched(meta, Dict(v), Named(tokens, FALSE))
  /\ UNCHANGED << vms, dicts, held, hist, frames >>
  /\ snap' = Synced(snap, stacks', dicts')

\* held = vm.serialize()
SerializeVM(v) ==
  /\ steps < MaxSteps /\ v \in DOMAIN vms
  /\ held' = Some(Serialize(DataStack(v).items, Dict(v), vms[v].config))
  /\ last' = Call("serialize", v, "", << >>, NoErr, Undefined)
  /\ hist' = [hist EXCEPT !.heldFrom = v]
  /\ steps' = steps + 1
  /\ UNCHANGED << vms, stacks, dicts, meta, frames >>
  /\ snap' = Synced(snap, stacks', dicts')

\* vm.deserialize(held)
DeserializeVM(v) ==
  /\ steps < MaxSteps /\ v \in DOMAIN vms /\ held.has
  /\ LET res == Deserialize(held.v, DataStack(v).items, Dict(v), meta, DataStack(v).maxDepth)
     IN /\ MetaBounded(res.m)
        /\ stacks' = [stacks EXCEPT ![vms[v].dataStack].items = res.st]
        /\ dicts' = [dicts EXCEPT ![vms[v].dictionary] = res.d]
        /\ meta' = res.m
        /\ last' = Call("deserialize", v, "", << >>, res.err, Undefined)
  /\ hist' = [hist EXCEPT !.restored = @ \cup {<< hist.heldFrom, v >>},
                        !.replaced = DataStack(v).items]
  /\ steps' = steps + 1
  /\ UNCHANGED << vms, held, frames >>
  /\ snap' = Synced(Detached(snap, vms[v].dataStack), stacks', dicts')

\* variant of clone that pushes the data stack snapshot on both new stacks
CloneStacksBothData(vm) ==
  LET new == NewVMStacks(vm.config)
      data == PushAll(StackSnapshot(stacks[vm.dataStack].items), 1, Result(<< >>),
                      new[1].maxDepth)
      ret == PushAll(StackSnapshot(stacks[vm.dataStack].items), 1, Result(<< >>),
                     new[2].maxDepth)
  IN << [new[1] EXCEPT !.items = data.st], [new[2] EXCEPT !.items = ret.st] >>

\* the Stack objects of a clone: new stacks with the snapshots pushed
CloneStacks(vm) ==
  LET new == NewVMStacks(vm.config)
      data == PushAll(StackSnapshot(stacks[vm.dataStack].items), 1, Result(<< >>),
                      new[1].maxDepth)
      ret == PushAll(StackSnapshot(stacks[vm.returnStack].items), 1, Result(<< >>),
                     new[2].maxDepth)
  IN << [new[1] EXCEPT !.items = data.st], [new[2] EXCEPT !.items = ret.st] >>

\* variant of clone that hands its own data stack to the new VM
CloneVMSharedStack(vm, sid, did) ==
  [NewVM(vm.config, sid, did) EXCEPT !.dataStack = vm.dataStack]

\* the VM object clone() returns, given the ids of the objects it created
CloneVM(vm, sid, did) == NewVM(vm.config, sid, did)

\* vm2 = vm1.clone()
Clone ==
  /\ steps < MaxSteps /\ 2 \notin DOMAIN vms
  /\ LET copy == CopyWords(DictList(Dict(1), None), 1, Dict(1), NewDictionary, meta)
     IN /\ vms' = [v \in {1, 2} |->
                     IF v = 1 THEN vms[1] ELSE CloneVM(vms[1], Len(stacks) + 1, Len(dicts) + 1)]
        /\ stacks' = stacks \o CloneStacks(vms[1])
        /\ dicts' = Append(dicts, copy.d)
        /\ meta' = copy.m
        /\ last' = Call("clone", 1, "", << >>, copy.err, Undefined)
  /\ steps' = steps + 1
  /\ UNCHANGED << held, hist, frames >>
  /\ snap' = Synced(snap, stacks', dicts')

\* vm2 = bootstrapVM(config)
BootstrapVM ==
  /\ steps < MaxSteps /\ 2 \notin DOMAIN vms
  /\ LET boot == BootstrapWords(1, NewDictionary, meta)
     IN /\ vms' = [v \in {1, 2} |->
                     IF v = 1 THEN vms[1] ELSE NewVM(Config, Len(stacks) + 1, Len(dicts) + 1)]
        /\ stacks' = stacks \o NewVMStacks(Config)
        /\ dicts' = Append(dicts, boot.d)
        /\ meta' = boot.m
        /\ last' = Call("bootstrapVM", 2, "", << >>, boot.err, Undefined)
  /\ steps' = steps + 1
  /\ UNCHANGED << held, hist, frames >>
  /\ snap' = Synced(snap, stacks', dicts')

(***************************************************************************)
(* Calls that hand an array to the caller, and what the caller does to it  *)
(***************************************************************************)
\* snap = vm.dataStack.snapshot()
TakeSnapshot(v) ==
  /\ steps < MaxSteps /\ v \in DOMAIN vms
  /\ snap' = StackSnapshotArray(vms[v].dataStack, DataStack(v).items)
  /\ last' = Call("snapshot", v, "", << >>, NoErr, Undefined)
  /\ steps' = steps + 1
  /\ UNCHANGED << vms, stacks, dicts, meta, held, hist, frames >>

\* snap = vm.dictionary.list(filter); last.name is the filter, if any
TakeList(v, filter) ==
  /\ steps < MaxSteps /\ v \in DOMAIN vms
  /\ snap' = DictListArray(vms[v].dictionary, Dict(v), filter)
  /\ last' = Call("list", v, IF filter.has THEN filter.v ELSE "", << >>, NoErr, Undefined)
  /\ steps' = steps + 1
  /\ UNCHANGED << vms, stacks, dicts, meta, held, hist, frames >>

\* the heaps after the array a has got the elements items: an array that is
\* the storage of an object changes that object
StacksWritten(a, items) ==
  IF a.ref # 0 /\ a.kind = "snapshot" THEN [stacks EXCEPT ![a.ref].items = items]
  ELSE stacks

DictsWritten(a, items) ==
  IF a.ref # 0 /\ a.kind = "list" THEN [dicts EXCEPT ![a.ref].definitionOrder = items]
  ELSE dicts

\* snap[i - 1] = x by the caller
WriteHeld(i, x) ==
  /\ steps < MaxSteps /\ snap.kind # "none" /\ i \in 1..Len(snap.items)
  /\ LET items == [snap.items EXCEPT ![i] = x]
     IN /\ snap' = [snap EXCEPT !.items = items]
        /\ stacks' = StacksWritten(snap, items)
        /\ dicts' = DictsWritten(snap, items)
  /\ last' = Call("write", 0, "", << >>, NoErr, Undefined)
  /\ steps' = steps + 1
  /\ UNCHANGED << vms, meta, held, hist, frames >>

\* snap.length = 0 by the caller
TruncateHeld ==
  /\ steps < MaxSteps /\ snap.kind # "none"
  /\ snap' = [snap EXCEPT !.items = << >>]
  /\ stacks' = StacksWritten(snap, << >>)
  /\ dicts' = DictsWritten(snap, << >>)
  /\ last' = Call("truncate", 0, "", << >>, NoErr, Undefined)
  /\ steps' = steps + 1
  /\ UNCHANGED << vms, meta, held, hist, frames >>

(***************************************************************************)
(* What a caller can observe through a VM                                  *)
(***************************************************************************)
\* vm.dataStack.snapshot()
Snapshot(v) == StackSnapshot(DataStack(v).items)

\* the metadata objects the previousDefinitions of object id refer to
PrevRefs(id) ==
  IF meta[id].previousDefinitions.has
  THEN {meta[id].previousDefinitions.v[i].definition.metadata :
          i \in 1..Len(meta[id].previousDefinitions.v)}
  ELSE {}

\* the metadata objects reachable from the objects ids
RECURSIVE ReachFrom(_)
ReachFrom(ids) ==
  LET next == ids \cup UNION {PrevRefs(i) : i \in ids}
  IN IF next = ids THEN ids ELSE ReachFrom(next)

\* the metadata objects reachable from the words of VM v
MetaOf(v) == ReachFrom({Dict(v).words[n].metadata : n \in DOMAIN Dict(v).words})

\* dictionary.list(), every find(name) result and every metadata object
\* (with its previousDefinitions) reachable from them
DictView(v) ==
  [list |-> DictList(Dict(v), None),
   words |-> Dict(v).words,
   metadata |-> [i \in MetaOf(v) |-> meta[i]]]

\* find(name) of VM v with the metadata objects reachable from it
WordView(v, name) ==
  [word |-> DictFind(Dict(v), name),
   metadata |-> IF name \in DOMAIN Dict(v).words
                THEN [i \in ReachFrom({Dict(v).words[name].metadata}) |-> meta[i]]
                ELSE << >>]

Other(v) == 3 - v

(***************************************************************************)
(* Spec: a bootstrapped VM and its clone; the caller works on the data     *)
(* stacks of both.                                                         *)
(***************************************************************************)
StackBudget == steps < MaxStackSteps

StackSources == { << "1", " ", "2" >>, << "+" >> }

Next ==
  \/ \E v \in {1, 2}, x \in {Num(1), Num(2)} : StackBudget /\ Push(v, x)
  \/ \E v \in {1, 2} : StackBudget /\ Pop(v)
  \/ \E v \in {1, 2} : StackBudget /\ Clear(v)
  \/ \E v \in {1, 2}, code \in StackSources : StackBudget /\ RunCode(v, code)
  \/ \E v \in {1, 2}, name \in {"DUP", "DROP"} : StackBudget /\ ExecuteName(v, name)
  \/ \E v \in {1, 2} : StackBudget /\ SerializeVM(v)
  \/ \E v \in {1, 2} : StackBudget /\ DeserializeVM(v)
  \/ StackBudget /\ Clone

Spec == Init /\ [][Next]_vars

\* C1: right after c = vm.clone() the snapshot of the clone equals that of
\* the original, and afterwards a push, pop, clear, run, execute or
\* deserialize on one of the two VMs leaves the snapshot of the other one
\* unchanged.
C1_CloneStackIndependent ==
  [][/\ last'.op = "clone" =>
          /\ Snapshot(2)' = Snapshot(1)'
          /\ Snapshot(1)' = Snapshot(1)
     /\ \A v \in DOMAIN vms \cap {Other(u) : u \in DOMAIN vms} :
          (last'.vm = v /\ last'.op \in {"push", "pop", "clear", "run", "execute",
                                         "deserialize"})
            => Snapshot(Other(v))' = Snapshot(Other(v))]_vars

\* the clone was taken from a non-empty stack and has gone its own way
C1_Witness ==
  /\ 2 \in DOMAIN vms
  /\ last.op = "run" /\ last.vm = 2 /\ last.code = << "+" >> /\ last.err = NoErr
  /\ Snapshot(1) = << Num(1), Num(2) >>
  /\ Snapshot(2) = << Num(3) >>

(***************************************************************************)
(* SpecDict: a bootstrapped VM and its clone; the caller defines and       *)
(* forgets words on both, also handing back to define() the Word and       *)
(* WordMetadata objects that find() and serialize() gave it.               *)
(***************************************************************************)
DictBudget == steps < MaxDictSteps

DictNames == {"F", "DUP"}

\* the Word objects the caller has from find(name)
CallerWords ==
  UNION {{Dict(v).words[n] : n \in DOMAIN Dict(v).words \cap DictNames} : v \in DOMAIN vms}

\* the WordMetadata objects the caller has from find(name).metadata and from
\* the entries of the held state
CallerMetadata ==
  {w.metadata : w \in CallerWords}
    \cup (IF held.has
          THEN {held.v.dictionary[i].metadata : i \in 1..Len(held.v.dictionary)}
          ELSE {})

DictPartials ==
  {WordOf(<< "DUP" >>), [WordOf(<< "DUP" >>) EXCEPT !.protected = Some(TRUE)],
   [WordOf(<< >>) EXCEPT !.body = None]}
    \cup {PartialOf(w) : w \in CallerWords}
    \cup {[WordOf(<< "1" >>) EXCEPT !.metadata = Some(id)] : id \in CallerMetadata}

NextDict ==
  \/ \E v \in {1, 2}, word \in DictPartials : DictBudget /\ Define(v, "F", word, FALSE)
  \/ \E v \in {1, 2} : DictBudget /\ Define(v, "F", WordOf(<< "2" >>), TRUE)
  \/ \E v \in {1, 2} : DictBudget /\ Define(v, "DUP", WordOf(<< "DROP" >>), FALSE)
  \/ \E v \in {1, 2}, name \in DictNames : DictBudget /\ Forget(v, name)
  \/ \E v \in {1, 2} : DictBudget /\ RunCode(v, << "1", " ", "F" >>)
  \/ \E v \in {1, 2} : DictBudget /\ SerializeVM(v)
  \/ \E v \in {1, 2} : DictBudget /\ DeserializeVM(v)
  \/ DictBudget /\ Clone

SpecDict == Init /\ [][NextDict]_vars

\* C2: after c = vm.clone() a define, forget, deserialize or run on one of
\* the two VMs leaves dictionary.list() and every field of every find(name)
\* result of the other VM, metadata.previousDefinitions included, unchanged.
C2_CloneDictionaryIndependent ==
  [][\A v \in DOMAIN vms \cap {Other(u) : u \in DOMAIN vms} :
       (last'.vm = v /\ last'.op \in {"define", "forget", "deserialize", "run"})
         => DictView(Other(v))' = DictView(Other(v))]_vars

\* C5: once a protected word is installed under a name, every define and
\* forget of that name fails with the protected-word error and leaves the
\* dictionary unchanged, and find(name) returns that word with all its
\* fields, metadata included, unchanged in every later state.
C5_ProtectedWordImmutable ==
  [][\A v \in DOMAIN vms :
       \A name \in DOMAIN Dict(v).words :
         Dict(v).words[name].protected =>
           /\ WordView(v, name)' = WordView(v, name)
           /\ (last'.vm = v /\ last'.name = name /\ last'.op \in {"define", "forget"}) =>
                /\ last'.err \in {PlainError("Cannot redefine protected word", name),
                                  PlainError("Cannot forget protected word", name)}
                /\ dicts' = dicts]_vars

(***************************************************************************)
(* SpecRestore: two bootstrapped VMs; VM 2 deserializes the state object   *)
(* that VM 1 serialized, and the caller goes on working on both.           *)
(***************************************************************************)
RestoreBudget == steps < MaxRestoreSteps

NextRestore ==
  \/ RestoreBudget /\ Define(1, "F", WordOf(<< "DUP" >>), FALSE)
  \/ \E word \in {WordOf(<< "DROP" >>)} \cup {PartialOf(w) : w \in CallerWords} :
       RestoreBudget /\ Define(2, "F", word, FALSE)
  \/ \E v \in {1, 2} : RestoreBudget /\ Forget(v, "F")
  \/ \E v \in {1, 2} : RestoreBudget /\ Push(v, Num(1))
  \/ RestoreBudget /\ SerializeVM(1)
  \/ RestoreBudget /\ DeserializeVM(2)
  \/ RestoreBudget /\ BootstrapVM

SpecRestore == Init /\ [][NextRestore]_vars

\* the data-stack snapshot and the dictionary as seen through VM v
Observable(v) == [snapshot |-> Snapshot(v), dictionary |-> DictView(v)]

Mutators == {"push", "pop", "clear", "run", "execute", "define", "forget", "deserialize"}

\* C3: vm2.deserialize(vm1.serialize()) changes nothing observable through
\* vm1, also when vm2 already holds a USER word of a serialized name, and
\* after it no operation on one of the two VMs changes anything observable
\* through the other.
C3_RestoreSharesNoStorage ==
  [][/\ (last'.op = "deserialize" /\ last'.vm = 2 /\ hist.heldFrom = 1)
          => Observable(1)' = Observable(1)
     /\ << 1, 2 >> \in hist.restored =>
          \A v \in {1, 2} :
            (last'.vm = v /\ last'.op \in Mutators)
              => Observable(Other(v))' = Observable(Other(v))]_vars

(***************************************************************************)
(* SpecRoundTrip: the caller fills VM 1, serializes it and deserializes    *)
(* the state into a second, freshly bootstrapped VM.                       *)
(***************************************************************************)
RoundTripBudget == steps < MaxRoundTripSteps

RoundTripWords ==
  {[WordOf(<< "DUP", "*" >>) EXCEPT !.stackEffect = Some("( n -- n*n )")],
   WordOf(<< "G", "1" >>),
   [WordOf(<< "DUP" >>) EXCEPT !.category = Some("STANDARD")]}

NextRoundTrip ==
  \/ \E name \in {"F", "G"}, word \in RoundTripWords :
       RoundTripBudget /\ Define(1, name, word, FALSE)
  \/ \E x \in {Num(2), Num(3)} : RoundTripBudget /\ Push(1, x)
  \/ RoundTripBudget /\ SerializeVM(1)
  \/ RoundTripBudget /\ BootstrapVM
  \/ RoundTripBudget /\ DeserializeVM(2)

SpecRoundTrip == Init /\ [][NextRoundTrip]_vars

\* VM v is as bootstrapVM(config) returns it
FreshlyBootstrapped(v) ==
  /\ Dict(v) = BootstrapWords(1, NewDictionary, CoreMetadata).d
  /\ DataStack(v) = NewVMStacks(vms[v].config)[1]
  /\ ReturnStack(v) = NewVMStacks(vms[v].config)[2]

\* every USER word of the dictionary d has a compiled body
UserWordsCompiled(d) ==
  \A n \in DOMAIN d.words : d.words[n].category = "USER" => d.words[n].body.kind = "compiled"

\* every word of d is a bootstrapped CORE word or a USER word
OnlyCoreAndUserWords(d) ==
  \A n \in DOMAIN d.words : n \in CoreNames \/ d.words[n].category = "USER"

\* the stacks on which the restored words are tried
ProbeStacks == {<< >>, << Num(2) >>, << Num(2), Num(3) >>}

\* the words of u and v under name agree in the persisted fields
SameRestoredWord(u, v, name) ==
  /\ name \in DOMAIN Dict(v).words
  /\ Dict(v).words[name].name = Dict(u).words[name].name
  /\ Dict(v).words[name].stackEffect = Dict(u).words[name].stackEffect
  /\ Dict(v).words[name].body = Dict(u).words[name].body
  /\ Dict(v).words[name].immediate = Dict(u).words[name].immediate
  /\ Dict(v).words[name].metadata = Dict(u).words[name].metadata

\* executing name gives the same result on every probe stack, and on the
\* stack s1, in a VM of dictionary d1 and stack s1 and in a VM of
\* dictionary d2 and stack s2
SameBehaviour(d1, s1, d2, s2, name) ==
  \A st \in ProbeStacks \cup {s1.items} :
    Execute(ByName(name), Result(st), d1, s1.maxDepth, MaxFuel)
      = Execute(ByName(name), Result(st), d2, s2.maxDepth, MaxFuel)

\* VM 2, freshly bootstrapped, deserializes the state just serialized from VM 1
RoundTripStep ==
  /\ last'.op = "deserialize" /\ last'.vm = 2
  /\ FreshlyBootstrapped(2)
  /\ held.has /\ held.v = Serialize(DataStack(1).items, Dict(1), vms[1].config)

\* the round trip reproduced the stack and the USER words of VM 1
RoundTripExact ==
  /\ last.err = NoErr
  /\ Snapshot(2) = Snapshot(1)
  /\ DictList(Dict(2), Some("USER")) = DictList(Dict(1), Some("USER"))
  /\ \A i \in 1..Len(DictList(Dict(1), Some("USER"))) :
       SameRestoredWord(1, 2, DictList(Dict(1), Some("USER"))[i])

\* every USER word name of d1 behaves in (d2, s2) as in (d1, s1)
RoundTripBehaviour(d1, s1, d2, s2) ==
  \A i \in 1..Len(DictList(d1, Some("USER"))) :
    SameBehaviour(d1, s1, d2, s2, DictList(d1, Some("USER"))[i])

\* C4 as stated: for a VM whose USER words all have compiled bodies, the
\* round trip into a freshly bootstrapped VM reproduces the stack snapshot
\* and every USER word, and every restored word name behaves as in the
\* original VM.
C4_RoundTripAsStated ==
  [][(RoundTripStep /\ UserWordsCompiled(Dict(1)))
       => /\ RoundTripExact'
          /\ RoundTripBehaviour(Dict(1)', DataStack(1)', Dict(2)', DataStack(2)')]_vars

\* C4 amended: the round trip reproduces the stack snapshot and every USER
\* word (name, stackEffect, body tokens, immediate, metadata, list order)
\* whenever the USER words all have compiled bodies; the restored names
\* behave as in the original VM when, besides, the original VM holds no
\* words other than the bootstrapped CORE words and USER words.
C4_RoundTrip ==
  [][(RoundTripStep /\ UserWordsCompiled(Dict(1)))
       => /\ RoundTripExact'
          /\ OnlyCoreAndUserWords(Dict(1)) =>
               RoundTripBehaviour(Dict(1)', DataStack(1)', Dict(2)', DataStack(2)')]_vars

C4_Witness ==
  /\ last.op = "deserialize" /\ last.vm = 2 /\ last.err = NoErr
  /\ Snapshot(2) = << Num(3) >>
  /\ DictList(Dict(2), Some("USER")) = << "G", "F" >>
  /\ Dict(2).words["F"].body.tokens = << "G", "1" >>
  /\ Dict(2).words["G"].body.tokens = << "DUP", "*" >>
  /\ Execute(ByName("F"), Result(Snapshot(2)), Dict(2), StackDepth, MaxFuel).st
       = << Num(9), Num(1) >>
  /\ held.v = Serialize(DataStack(1).items, Dict(1), vms[1].config)

(***************************************************************************)
(* SpecExec: one bootstrapped VM on which the caller defines compiled      *)
(* words, pushes values and calls run and execute.                         *)
(***************************************************************************)
ExecWords ==
  { << "SQUARE", << "DUP", "*" >> >>,
    << "CUBE", << "DUP", "SQUARE", "*" >> >>,
    << "BAD", << "1", "NOPE", "2" >> >>,
    << "OUTER", << "BAD", "3" >> >> }

ExecSources ==
  { << "5", " ", "3" >>,
    << "5", " ", "3", " ", "UNKNOWN" >>,
    << " ", "2", " ", " ", "SQUARE", " " >>,
    << "+" >>,
    << "2DUP" >>,
    << "1", " ", "SWAP" >>,
    << "2", " ", "CUBE" >>,
    << "BAD" >>,
    << >> }

ExecNames == {"+", "DUP", "SWAP", "2DUP", "SQUARE", "CUBE", "BAD", "OUTER", "NOPE"}

ExecBudget == steps < MaxExecSteps

NextExec ==
  \/ \E w \in ExecWords : ExecBudget /\ Define(1, w[1], WordOf(w[2]), FALSE)
  \/ \E x \in {Num(2), Num(5)} : ExecBudget /\ Push(1, x)
  \/ \E code \in ExecSources : ExecBudget /\ RunCode(1, code)
  \/ \E name \in ExecNames : ExecBudget /\ ExecuteName(1, name)
  \/ \E code \in ExecSources : ExecBudget /\ ExecuteWord(1, Parse(code))

SpecExec == Init /\ [][NextExec]_vars

(***************************************************************************)
(* Properties of run and execute, checked under SpecExec                   *)
(***************************************************************************)
\* the call that has just returned was a run or an execute on VM 1
Executed == last.op \in {"run", "execute", "executeWord"}

\* the tokens the last run or execute(word) call went through
LastTokens == IF last.op = "run" THEN Parse(last.code) ELSE last.code

\* the result of run on the first k tokens, from the data stack of VM 1
RunPrefix(tokens, k) ==
  RunTokens(SubSeq(tokens, 1, k), 1, Result(DataStack(1).items), Dict(1),
            DataStack(1).maxDepth)

\* the result of a run of token k alone after a run of the tokens before it
RunSplit(tokens, k) ==
  RunTokens(<< tokens[k] >>, 1, Result(RunPrefix(tokens, k - 1).st), Dict(1),
            DataStack(1).maxDepth)

\* the index of the token at which run fails from the current state
FailIndex(tokens) ==
  CHOOSE k \in 1..Len(tokens) :
    /\ RunPrefix(tokens, k).err # NoErr
    /\ \A j \in 1..(k - 1) : RunPrefix(tokens, j).err = NoErr

\* C6: run has no rollback: when run(source) fails at token k, the data
\* stack is the one that a successful run of tokens 1..k-1 followed by a
\* failing run of token k alone leaves; the changes made by tokens 1..k-1
\* are not undone.
C6_RunNoRollback ==
  [][(last'.op = "run" /\ last'.err # NoErr) =>
       LET tokens == Parse(last'.code)
           k == FailIndex(tokens)
       IN /\ RunPrefix(tokens, k - 1).err = NoErr
          /\ RunSplit(tokens, k).err = last'.err
          /\ DataStack(1)'.items = RunSplit(tokens, k).st
          /\ (last'.err = WordNotFoundError(tokens[k]) /\ tokens[k] \notin DOMAIN Dict(1).words
                => DataStack(1)'.items = RunPrefix(tokens, k - 1).st)]_vars

C6_Witness ==
  /\ last.op = "run" /\ last.code = << "5", " ", "3", " ", "UNKNOWN" >>
  /\ last.err = WordNotFoundError("UNKNOWN")
  /\ DataStack(1).items = << Num(5), Num(3) >>

WordObject(tokens) ==
  [name |-> "", stackEffect |-> "( -- )", body |-> CompiledBody(tokens),
   immediate |-> FALSE, protected |-> FALSE, category |-> "USER", metadata |-> 0]

\* C8: from every state and for every source text, run(S) and execute of a
\* Word whose compiled body is parse(S) end with the same data stack and the
\* same error outcome (neither touches the dictionary), unless one of them
\* exhausts the host call stack.
C8_RunEqualsExecuteOfParsedBody ==
  \A code \in ExecSources :
    LET r0 == Result(DataStack(1).items)
        a == Run(code, r0, Dict(1), DataStack(1).maxDepth)
        b == Execute(ByWord(WordObject(Parse(code))), r0, Dict(1), DataStack(1).maxDepth,
                     MaxFuel)
    IN (a.err # RangeError /\ b.err # RangeError) => a = b

C8_Witness ==
  /\ last.op = "run" /\ last.code = << " ", "2", " ", " ", "SQUARE", " " >>
  /\ last.err = NoErr
  /\ DataStack(1).items = << Num(4) >>

\* the tokens of a body with every compiled word replaced by its own body,
\* down to numerals, native words and unknown names
RECURSIVE Flatten(_, _, _)
Flatten(tokens, d, depth) ==
  IF tokens = << >> THEN << >>
  ELSE LET t == Head(tokens)
           w == DictFind(d, t)
           here == IF IsNaN(Number(t)) /\ w.has /\ w.v.body.kind = "compiled" /\ depth > 0
                   THEN Flatten(w.v.body.tokens, d, depth - 1)
                   ELSE << t >>
       IN here \o Flatten(Tail(tokens), d, depth)

\* the dictionary of a bootstrapped VM after SQUARE and CUBE are defined
SquareCubeDict ==
  LET boot == BootstrapWords(1, NewDictionary, CoreMetadata)
      sq == DictDefine(boot.d, boot.m, "SQUARE", WordOf(<< "DUP", "*" >>))
  IN DictDefine(sq.d, sq.m, "CUBE", WordOf(<< "DUP", "SQUARE", "*" >>)).d

\* C9: executing a compiled word by name leaves the data stack (and error)
\* that dispatching its body tokens one after another at top level leaves,
\* also with every nested compiled word expanded in place; SQUARE turns [8]
\* into [64] and CUBE turns [5] into [125].
C9_CompiledBodyInOrder ==
  /\ \A name \in DOMAIN Dict(1).words :
       Dict(1).words[name].body.kind = "compiled" =>
         LET r0 == Result(DataStack(1).items)
             max == DataStack(1).maxDepth
             tokens == Dict(1).words[name].body.tokens
             byName == Execute(ByName(name), r0, Dict(1), max, MaxFuel)
         IN /\ byName = RunTokens(tokens, 1, r0, Dict(1), max)
            /\ byName = RunTokens(Flatten(tokens, Dict(1), MaxFuel), 1, r0, Dict(1), max)
  /\ Execute(ByName("SQUARE"), Result(<< Num(8) >>), SquareCubeDict, StackDepth, MaxFuel).st
       = << Num(64) >>
  /\ Execute(ByName("CUBE"), Result(<< Num(5) >>), SquareCubeDict, StackDepth, MaxFuel).st
       = << Num(125) >>

C9_Witness ==
  /\ last.op = "run" /\ last.code = << "2", " ", "CUBE" >> /\ last.err = NoErr
  /\ DataStack(1).items = << Num(8) >>
  /\ Dict(1).words["CUBE"].body.tokens = << "DUP", "SQUARE", "*" >>

\* C10: execute(name) of a name absent from the dictionary fails with
\* WordNotFound carrying that name and changes no stack and no dictionary;
\* run fails in the same way at a non-numeral token that is absent, with the
\* data stack as the tokens before it left it.
C10_WordNotFound ==
  [][/\ (last'.op = "execute" /\ last'.name \notin DOMAIN Dict(1).words) =>
          /\ last'.err = WordNotFoundError(last'.name)
          /\ stacks' = stacks /\ dicts' = dicts /\ meta' = meta
     /\ last'.op = "run" =>
          \A k \in 1..Len(Parse(last'.code)) :
            LET tokens == Parse(last'.code)
            IN (/\ IsNaN(Number(tokens[k]))
                /\ tokens[k] \notin DOMAIN Dict(1).words
                /\ RunPrefix(tokens, k - 1).err = NoErr) =>
                 /\ last'.err = WordNotFoundError(tokens[k])
                 /\ DataStack(1)'.items = RunPrefix(tokens, k - 1).st
                 /\ ReturnStack(1)' = ReturnStack(1)
                 /\ dicts' = dicts /\ meta' = meta]_vars

C10_Witness ==
  /\ last.op = "execute" /\ last.name = "NOPE"
  /\ last.err = WordNotFoundError("NOPE")
  /\ DataStack(1).items # << >>

\* C11: an error raised at any nesting depth reaches the caller of run or
\* execute unchanged: with the compiled words of the call expanded in place
\* down to numerals, native words and unknown names, the error is the one
\* the first failing token raises on its own (StackUnderflow or
\* StackOverflow of a native word, WordNotFound for the missing name
\* itself), and the data stack is the one that token left: no later token
\* of any level has run.
C11_ErrorPropagatesUnchanged ==
  [][(Executed' /\ last'.err # NoErr /\ last'.err # RangeError) =>
       LET tokens == IF last'.op = "execute" THEN << last'.name >>
                     ELSE IF last'.op = "run" THEN Parse(last'.code) ELSE last'.code
           flat == Flatten(tokens, Dict(1), MaxFuel)
           k == FailIndex(flat)
       IN /\ RunSplit(flat, k).err = last'.err
          /\ DataStack(1)'.items = RunSplit(flat, k).st
          /\ ~IsNaN(Number(flat[k])) => last'.err = StackOverflowError
          /\ (IsNaN(Number(flat[k])) /\ flat[k] \notin DOMAIN Dict(1).words)
               => last'.err = WordNotFoundError(flat[k])
          /\ (IsNaN(Number(flat[k])) /\ flat[k] \in DOMAIN Dict(1).words) =>
               /\ Dict(1).words[flat[k]].body.kind = "native"
               /\ last'.err \in {StackUnderflowError, StackOverflowError}]_vars

\* the missing NOPE inside BAD inside OUTER reached the caller of
\* execute('OUTER') under its own name, after the 1 of BAD was pushed and
\* before the 2 of BAD and the 3 of OUTER
C11_Witness ==
  /\ last.op = "execute" /\ last.name = "OUTER"
  /\ last.err = WordNotFoundError("NOPE")
  /\ Dict(1).words["OUTER"].body.tokens = << "BAD", "3" >>
  /\ Dict(1).words["BAD"].body.tokens = << "1", "NOPE", "2" >>
  /\ DataStack(1).items = << Num(1) >>

(***************************************************************************)
(* SpecState: one bootstrapped VM; the caller defines and forgets words of *)
(* several kinds, pushes values, serializes the VM and deserializes the    *)
(* held state into it.                                                     *)
(***************************************************************************)
StateBudget == steps < MaxStateSteps

\* the Partial<Word> objects the caller defines F with: a compiled word, a
\* protected compiled word and a compiled word of category CORE
StateWords ==
  {WordOf(<< "DUP" >>),
   [WordOf(<< "1" >>) EXCEPT !.protected = Some(TRUE)],
   [WordOf(<< "2" >>) EXCEPT !.category = Some("CORE")]}

\* the Partial<Word> object { body: vm => ... } of a native USER word
NativeWord == [WordOf(<< >>) EXCEPT !.body = Some(NativeBody("DROP"))]

NextState ==
  \/ \E word \in StateWords : StateBudget /\ Define(1, "F", word, FALSE)
  \/ StateBudget /\ Define(1, "N", NativeWord, FALSE)
  \/ \E name \in {"F", "N"} : StateBudget /\ Forget(1, name)
  \/ \E x \in {Num(1), Num(2)} : StateBudget /\ Push(1, x)
  \/ StateBudget /\ SerializeVM(1)
  \/ StateBudget /\ DeserializeVM(1)

SpecState == Init /\ [][NextState]_vars

\* C12: after a successful deserialize(state) the snapshot of the data
\* stack is state.stack, in the same order, whatever the stack held before.
C12_DeserializeReplacesStack ==
  [][\A v \in DOMAIN vms :
       (last'.op = "deserialize" /\ last'.vm = v /\ last'.err = NoErr)
         => Snapshot(v)' = held.v.stack]_vars

\* the stack held [1, 2] when deserialize began and holds the [1] of the state
C12_Witness ==
  /\ last.op = "deserialize" /\ last.err = NoErr
  /\ hist.replaced = << Num(1), Num(2) >>
  /\ held.v.stack = << Num(1) >>
  /\ Snapshot(1) = << Num(1) >>

\* C13: deserialize(state) never fails because an entry of state.dictionary
\* has the name of a word that is in the dictionary with category USER: the
\* call does not end with the protected-word error for that name, and when
\* it succeeds the word under that name is the restored definition.
C13_UserCollisionNeverFails ==
  [][\A v \in DOMAIN vms :
       (last'.op = "deserialize" /\ last'.vm = v) =>
         \A i \in 1..Len(held.v.dictionary) :
           LET entry == held.v.dictionary[i]
           IN (/\ entry.body # NativeSentinel
               /\ entry.name \in DOMAIN Dict(v).words
               /\ Dict(v).words[entry.name].category = "USER")
                => /\ last'.err # PlainError("Cannot redefine protected word", entry.name)
                   /\ last'.err = NoErr =>
                        Dict(v)'.words[entry.name].body = CompiledBody(JSONParse(entry.body))]_vars

\* find(name) for every word of category CORE of VM v, with the metadata
\* objects reachable from it
CoreView(v) ==
  [n \in {x \in DOMAIN Dict(v).words : Dict(v).words[x].category = "CORE"} |-> WordView(v, n)]

\* C14: deserialize(state), successful or failed, leaves every word of
\* category CORE in the dictionary, with the same fields.
C14_DeserializeKeepsCoreWords ==
  [][\A v \in DOMAIN vms :
       (last'.op = "deserialize" /\ last'.vm = v) =>
         \A n \in DOMAIN CoreView(v) :
           /\ n \in DOMAIN Dict(v)'.words
           /\ WordView(v, n)' = CoreView(v)[n]]_vars

\* the names of the entries of state.dictionary whose body is not the
\* native sentinel
RestoredNames(state) ==
  {state.dictionary[i].name :
     i \in {j \in 1..Len(state.dictionary) : state.dictionary[j].body # NativeSentinel}}

\* the names of the words of category USER of VM v
UserNames(v) == {n \in DOMAIN Dict(v).words : Dict(v).words[n].category = "USER"}

\* C15: deserialize(state) clears the USER words before restoring: after a
\* successful call the words of category USER are exactly the non-native
\* words listed in state.dictionary.
C15_DeserializeClearsUserWords ==
  [][\A v \in DOMAIN vms :
       (last'.op = "deserialize" /\ last'.vm = v /\ last'.err = NoErr)
         => UserNames(v)' = RestoredNames(held.v)]_vars

\* the entries of list whose body is not the native sentinel
WithoutNative(list) == SelectSeq(list, LAMBDA entry : entry.body # NativeSentinel)

\* C16: deserialize skips an entry whose body is the native sentinel without
\* raising an error: the call ends as it does for the state without such
\* entries (same error outcome, same data stack, same dictionary, same
\* metadata), so no word is defined under the name of a skipped entry, a
\* word installed under that name stays as it is, and the other entries are
\* processed.
C16_NativeSentinelSkipped ==
  [][\A v \in DOMAIN vms :
       (last'.op = "deserialize" /\ last'.vm = v) =>
         LET plain == [held.v EXCEPT !.dictionary = WithoutNative(@)]
             res == Deserialize(plain, DataStack(v).items, Dict(v), meta, DataStack(v).maxDepth)
         IN /\ last'.err = res.err
            /\ DataStack(v)'.items = res.st
            /\ Dict(v)' = res.d
            /\ meta' = res.m
            /\ \A i \in 1..Len(held.v.dictionary) :
                 (/\ held.v.dictionary[i].body = NativeSentinel
                  /\ held.v.dictionary[i].name \notin RestoredNames(held.v))
                   => DictFind(Dict(v), held.v.dictionary[i].name)'
                        = DictFind(Dict(v), held.v.dictionary[i].name)]_vars

\* the state lists the native N before the compiled F; N had been forgotten
\* and is still absent after the call, F was redefined by it
C16_Witness ==
  /\ last.op = "deserialize" /\ last.err = NoErr
  /\ Len(held.v.dictionary) = 2
  /\ held.v.dictionary[1].name = "N" /\ held.v.dictionary[1].body = NativeSentinel
  /\ held.v.dictionary[2].name = "F"
  /\ "N" \notin DOMAIN Dict(1).words
  /\ Dict(1).words["F"].body = CompiledBody(<< "DUP" >>)
  /\ meta[Dict(1).words["F"].metadata].previousDefinitions.has

(***************************************************************************)
(* SpecClone: one bootstrapped VM; the caller defines words of several     *)
(* kinds, pushes values on the data stack and on the return stack,         *)
(* serializes the VM and clones it.                                        *)
(***************************************************************************)
CloneBudget == steps < MaxCloneSteps

\* the Partial<Word> objects the caller defines F with: a compiled word with
\* a stack effect, a protected compiled word and a word of category STANDARD
CloneWords ==
  {[WordOf(<< "DUP", "*" >>) EXCEPT !.stackEffect = Some("( n -- n*n )")],
   [WordOf(<< "1" >>) EXCEPT !.protected = Some(TRUE)],
   [WordOf(<< "2" >>) EXCEPT !.category = Some("STANDARD")]}

NextClone ==
  \/ \E word \in CloneWords : CloneBudget /\ Define(1, "F", word, FALSE)
  \/ CloneBudget /\ Define(1, "N", NativeWord, FALSE)
  \/ \E x \in {Num(1), Num(2)} : CloneBudget /\ Push(1, x)
  \/ CloneBudget /\ PushReturn(1, Num(3))
  \/ CloneBudget /\ SerializeVM(1)
  \/ CloneBudget /\ Clone

SpecClone == Init /\ [][NextClone]_vars

\* C17: in every state serialize() returns version "0.1.0", a stack equal
\* to dataStack.snapshot() and the words of category USER in list('USER')
\* order, a native one with the native sentinel as body and a compiled one
\* with the encoding of its tokens; no word of another category and nothing
\* of the return stack is in it.
C17_SerializeContent ==
  \A v \in DOMAIN vms :
    LET state == Serialize(DataStack(v).items, Dict(v), vms[v].config)
        user == DictList(Dict(v), Some("USER"))
    IN /\ (last.op = "serialize" /\ last.vm = v) => held = Some(state)
       /\ DOMAIN state = {"version", "timestamp", "stack", "dictionary", "config"}
       /\ state.version = "0.1.0"
       /\ state.stack = Snapshot(v)
       /\ Len(state.dictionary) = Len(user)
       /\ \A i \in 1..Len(user) :
            LET word == Dict(v).words[user[i]]
                entry == state.dictionary[i]
            IN /\ entry.name = user[i]
               /\ word.category = "USER"
               /\ word.body.kind = "native" => entry.body = NativeSentinel
               /\ word.body.kind = "compiled" =>
                    /\ entry.body # NativeSentinel
                    /\ JSONParse(entry.body) = word.body.tokens
       /\ \A n \in DOMAIN Dict(v).words :
            Dict(v).words[n].category # "USER" =>
              \A i \in 1..Len(state.dictionary) : state.dictionary[i].name # n
       /\ \A i \in 1..Len(state.stack) : state.stack[i] = DataStack(v).items[i]

\* serialize() of a VM with a compiled and a native USER word, a value on
\* the data stack and one on the return stack
C17_Witness ==
  /\ last.op = "serialize"
  /\ held.v.stack = << Num(1) >>
  /\ ReturnStack(1).items = << Num(3) >>
  /\ Len(held.v.dictionary) = 2
  /\ held.v.dictionary[1].name = "F"
  /\ held.v.dictionary[1].body = << "[", "\"", "DUP", "\"", ",", "\"", "*", "\"", "]" >>
  /\ held.v.dictionary[2].name = "N"
  /\ held.v.dictionary[2].body = NativeSentinel

\* C18: right after c = vm.clone(), c.dictionary.list() equals
\* vm.dictionary.list(), every word of the clone has the body, stackEffect,
\* immediate, protected and category of the original's word of that name,
\* the return stacks hold the same values, and clone() has not failed.
C18_CloneCopiesEveryWord ==
  [][last'.op = "clone" =>
       /\ last'.err = NoErr
       /\ DictList(Dict(2), None)' = DictList(Dict(1), None)'
       /\ DOMAIN Dict(2)'.words = DOMAIN Dict(1)'.words
       /\ \A n \in DOMAIN Dict(1)'.words :
            /\ Dict(2)'.words[n].name = n
            /\ Dict(2)'.words[n].body = Dict(1)'.words[n].body
            /\ Dict(2)'.words[n].stackEffect = Dict(1)'.words[n].stackEffect
            /\ Dict(2)'.words[n].immediate = Dict(1)'.words[n].immediate
            /\ Dict(2)'.words[n].protected = Dict(1)'.words[n].protected
            /\ Dict(2)'.words[n].category = Dict(1)'.words[n].category
       /\ ReturnStack(2)'.items = ReturnStack(1)'.items
       /\ ReturnStack(2)'.maxDepth = ReturnStack(1)'.maxDepth]_vars

\* the clone of a VM with the protected CORE words, a STANDARD word F, a
\* native USER word N and a value on the return stack
C18_Witness ==
  /\ last.op = "clone" /\ last.err = NoErr
  /\ {"F", "N"} \subseteq DOMAIN Dict(2).words
  /\ Dict(2).words["DUP"].protected /\ Dict(2).words["DUP"].category = "CORE"
  /\ Dict(2).words["F"].category = "STANDARD"
  /\ Dict(2).words["N"].body = NativeBody("DROP")
  /\ Len(DictList(Dict(2), None)) = Len(CoreWords) + 2
  /\ ReturnStack(2).items = << Num(3) >>
  /\ vms[2].returnStack # vms[1].returnStack

\* the VM built by new VM(config) followed by deserialize(vm.serialize()),
\* for the VM of data stack s and dictionary d: [st, d, m, err]
RestoredCopy(s, d, m, config) ==
  Deserialize(Serialize(s.items, d, config), NewVMStacks(config)[1].items, NewDictionary, m,
              NewVMStacks(config)[1].maxDepth)

Consistent(d) ==
  /\ {d.definitionOrder[i] : i \in 1..Len(d.definitionOrder)} = DOMAIN d.words
  /\ \A i, j \in 1..Len(d.definitionOrder) :
       d.definitionOrder[i] = d.definitionOrder[j] => i = j
  /\ \A n \in DOMAIN d.words : d.words[n].name = n

\* C20: after any sequence of define and forget calls, successful or
\* failing, the names in definitionOrder are exactly the keys of the
\* name-to-word mapping, each name occurs once in definitionOrder, and the
\* word stored under a key carries that key as its name.
C20_DictionaryConsistent ==
  \A i \in 1..Len(dicts) : Consistent(dicts[i])

\* F was defined, redefined and forgotten, and then a forget of the
\* protected DUP has failed
C20_Witness ==
  /\ last.op = "forget" /\ last.name = "DUP"
  /\ last.err = PlainError("Cannot forget protected word", "DUP")
  /\ "F" \notin DOMAIN Dict(1).words
  /\ Len(Dict(1).definitionOrder) = Len(CoreWords)
  /\ \E i \in 1..Len(meta) : meta[i].previousDefinitions.has

(***************************************************************************)
(* Dictionary calls one by one, checked under SpecDict                     *)
(***************************************************************************)
\* the previousDefinitions list of metadata object id in the heap m, empty
\* when the object does not exist yet or has no list
PreviousDefinitions(m, id) ==
  IF id \in 1..Len(m) /\ m[id].previousDefinitions.has THEN m[id].previousDefinitions.v
  ELSE << >>

\* C21: a successful define() of a name that is already defined leaves
\* list() and every other word as they were, and the previousDefinitions of
\* the new word's metadata is the list that metadata object held before the
\* call followed by one more entry, whose definition is the superseded Word.
C21_RedefineKeepsOrderAndHistory ==
  [][\A v \in DOMAIN vms :
       (/\ last'.op = "define" /\ last'.vm = v /\ last'.err = NoErr
        /\ last'.name \in DOMAIN Dict(v).words)
         => LET name == last'.name
                old == Dict(v).words[name]
                mid == Dict(v)'.words[name].metadata
            IN /\ Dict(v)'.definitionOrder = Dict(v).definitionOrder
               /\ DictList(Dict(v)', None) = DictList(Dict(v), None)
               /\ DOMAIN Dict(v)'.words = DOMAIN Dict(v).words
               /\ \A n \in DOMAIN Dict(v).words \ {name} :
                    Dict(v)'.words[n] = Dict(v).words[n]
               /\ PreviousDefinitions(meta', mid)
                    = Append(PreviousDefinitions(meta, mid),
                             [timestamp |-> Date, definition |-> old])]_vars

\* F has been defined three times, the third time with the metadata object
\* of the second definition: list() names it once, after the CORE words, and
\* its previousDefinitions holds the first definition and then the second
C21_Witness ==
  /\ last.op = "define" /\ last.name = "F" /\ last.err = NoErr /\ last.vm = 1
  /\ "F" \in DOMAIN Dict(1).words
  /\ DictList(Dict(1), None) = [i \in 1..Len(CoreWords) |-> CoreWords[i].name] \o << "F" >>
  /\ LET prev == PreviousDefinitions(meta, Dict(1).words["F"].metadata)
     IN /\ Len(prev) = 2
        /\ prev[1].definition.body = CompiledBody(<< "2" >>)
        /\ prev[2].definition.body = CompiledBody(<< "DUP" >>)
        /\ Dict(1).words["F"].body = CompiledBody(<< "1" >>)

\* the field of a Partial<Word>, or the default when the field is omitted
Provided(field, default) == IF field.has THEN field.v ELSE default

\* a name no call ever defines
UndefinedName == "G"

\* C22: after a successful define(name, w), find(name) is a word whose name
\* is the name argument, whose provided fields are the provided values and
\* whose omitted fields are '( -- )', an empty compiled body, not immediate,
\* not protected, category USER and a new metadata object with usage count
\* 0; find of a name that was never defined finds nothing.
C22_DefineThenFind ==
  [][\A v \in DOMAIN vms :
       /\ \A name \in DictNames, word \in DictPartials \cup {WordOf(<< "DROP" >>)} :
            (/\ last'.op = "define" /\ last'.vm = v /\ last'.name = name /\ last'.err = NoErr
             /\ Define(v, name, word, FALSE))
              => LET found == DictFind(Dict(v)', name)
                 IN /\ found.has
                    /\ found.v.name = name
                    /\ found.v.stackEffect = Provided(word.stackEffect, "( -- )")
                    /\ found.v.body = Provided(word.body, CompiledBody(<< >>))
                    /\ found.v.immediate = Provided(word.immediate, FALSE)
                    /\ found.v.protected = Provided(word.protected, FALSE)
                    /\ found.v.category = Provided(word.category, "USER")
                    /\ found.v.metadata = Provided(word.metadata, Len(meta) + 1)
                    /\ ~word.metadata.has
                         => /\ meta'[found.v.metadata].usageCount = 0
                            /\ meta'[found.v.metadata].defined = Date
       /\ (/\ last'.op = "define" /\ last'.vm = v /\ last'.name = "F" /\ last'.err = NoErr
           /\ Define(v, "F", WordOf(<< "2" >>), TRUE))
            => LET found == DictFind(Dict(v)', "F")
               IN /\ found.has
                  /\ found.v = [name |-> "F", stackEffect |-> "( -- )",
                                body |-> CompiledBody(<< "2" >>), immediate |-> FALSE,
                                protected |-> FALSE, category |-> "USER",
                                metadata |-> Len(meta) + 1]
                  /\ meta'[found.v.metadata].usageCount = 0
       /\ DictFind(Dict(v)', UndefinedName) = None]_vars

\* define('F', find('DUP')) has succeeded: find('F') is a word named F with
\* every other field, the metadata object included, as in the word DUP
C22_Witness ==
  /\ last.op = "define" /\ last.name = "F" /\ last.err = NoErr /\ last.vm = 1
  /\ DictFind(Dict(1), "F") = Some([CoreWords[1] EXCEPT !.name = "F"])
  /\ DictFind(Dict(1), "DUP") = Some(CoreWords[1])

\* C23: forget(name) fails with "Cannot forget unknown word" when the name
\* is absent and with "Cannot forget protected word" when the word is
\* protected, and the dictionary is then unchanged; otherwise it succeeds,
\* the name is gone from the mapping and from list(), and the other words
\* and the relative order of the other names are as before.  Checked under
\* SpecState.
C23_Forget ==
  [][\A v \in DOMAIN vms :
       (last'.op = "forget" /\ last'.vm = v)
         => LET name == last'.name
                word == DictFind(Dict(v), name)
            IN IF ~word.has
               THEN /\ last'.err = PlainError("Cannot forget unknown word", name)
                    /\ dicts' = dicts /\ meta' = meta
               ELSE IF word.v.protected
               THEN /\ last'.err = PlainError("Cannot forget protected word", name)
                    /\ dicts' = dicts /\ meta' = meta
               ELSE /\ last'.err = NoErr
                    /\ DictFind(Dict(v)', name) = None
                    /\ DOMAIN Dict(v)'.words = DOMAIN Dict(v).words \ {name}
                    /\ \A n \in DOMAIN Dict(v)'.words : Dict(v)'.words[n] = Dict(v).words[n]
                    /\ DictList(Dict(v)', None)
                         = SelectSeq(DictList(Dict(v), None), LAMBDA n : n # name)]_vars

\* F and then N were defined and F has been forgotten: list() is the CORE
\* names followed by N, and N is still found
C23_Witness ==
  /\ last.op = "forget" /\ last.name = "F" /\ last.err = NoErr
  /\ DictFind(Dict(1), "F") = None
  /\ DictFind(Dict(1), "N").has
  /\ DictList(Dict(1), None) = [i \in 1..Len(CoreWords) |-> CoreWords[i].name] \o << "N" >>
  /\ steps = 3

(***************************************************************************)
(* SpecList: a bootstrapped VM; the caller defines and forgets the words F *)
(* and G in the three categories, asks for list() and list(category), and  *)
(* writes into the array it got.                                           *)
(***************************************************************************)
ListBudget == steps < MaxListSteps

Categories == {"CORE", "STANDARD", "USER"}

ListNames == {"F", "G"}

\* { body: ['1'] } and the same with one of the categories
ListWords ==
  {WordOf(<< "1" >>)}
    \cup {[WordOf(<< "1" >>) EXCEPT !.category = Some(c)] : c \in Categories}

NextList ==
  \/ \E name \in ListNames, word \in ListWords : ListBudget /\ Define(1, name, word, FALSE)
  \/ \E name \in ListNames : ListBudget /\ Forget(1, name)
  \/ \E filter \in {None} \cup {Some(c) : c \in Categories} : ListBudget /\ TakeList(1, filter)
  \/ \E i \in {1, Len(CoreWords) + 1} : ListBudget /\ WriteHeld(i, "X")
  \/ ListBudget /\ TruncateHeld

SpecList == Init /\ [][NextList]_vars

\* the elements of a sequence
Range(s) == {s[i] : i \in 1..Len(s)}

\* the names of list() of dictionary d are those of list('CORE'),
\* list('STANDARD') and list('USER'), each name in one of the three only
Partitioned(d) ==
  LET core == DictList(d, Some("CORE"))
      standard == DictList(d, Some("STANDARD"))
      user == DictList(d, Some("USER"))
  IN /\ Range(DictList(d, None)) = Range(core) \cup Range(standard) \cup Range(user)
     /\ Range(core) \cap Range(standard) = {}
     /\ Range(core) \cap Range(user) = {}
     /\ Range(standard) \cap Range(user) = {}
     /\ Len(d.definitionOrder) = Len(core) + Len(standard) + Len(user)

\* C24: list() never fails and changes nothing; a define of a new name puts
\* the name at the end of list(); list(c) is the subsequence of list() of
\* the names whose word now has category c; every name of list() is in
\* exactly one of list('CORE'), list('STANDARD'), list('USER'); and writing
\* into the returned array or truncating it leaves the dictionary as it was.
C24_List ==
  [][\A v \in DOMAIN vms :
       /\ (last'.op = "list" /\ last'.vm = v)
            => /\ last'.err = NoErr
               /\ dicts' = dicts /\ meta' = meta
               /\ snap'.items =
                    IF last'.name = "" THEN Dict(v).definitionOrder
                    ELSE SelectSeq(DictList(Dict(v), None),
                                   LAMBDA n : Dict(v).words[n].category = last'.name)
       /\ (/\ last'.op = "define" /\ last'.vm = v /\ last'.err = NoErr
           /\ last'.name \notin DOMAIN Dict(v).words)
            => DictList(Dict(v)', None) = Append(DictList(Dict(v), None), last'.name)
       /\ Partitioned(Dict(v)')
       /\ last'.op \in {"write", "truncate"}
            => /\ dicts' = dicts
               /\ \A filter \in {None} \cup {Some(c) : c \in Categories} :
                    DictList(Dict(v)', filter) = DictList(Dict(v), filter)]_vars

\* F is a STANDARD word and G a USER word; the caller has written into the
\* first place of the array list() gave it, and list() still begins with DUP
C24_Witness ==
  /\ last.op = "write" /\ snap.kind = "list"
  /\ Len(snap.items) = Len(CoreWords) + 2 /\ snap.items[1] = "X"
  /\ DictList(Dict(1), None) = [i \in 1..Len(CoreWords) |-> CoreWords[i].name] \o << "F", "G" >>
  /\ DictList(Dict(1), Some("STANDARD")) = << "F" >>
  /\ DictList(Dict(1), Some("USER")) = << "G" >>
  /\ DictList(Dict(1), Some("CORE")) = [i \in 1..Len(CoreWords) |-> CoreWords[i].name]

(***************************************************************************)
(* SpecStack: a bootstrapped VM; the caller calls every operation of its   *)
(* data stack, keeps the array snapshot() gave it and writes into it,      *)
(* pushes on the return stack, and runs, executes, serializes,             *)
(* deserializes and clones the VM.                                         *)
(***************************************************************************)
StackOpBudget == steps < MaxStackOpSteps

StackValues == {Num(1), Num(2)}

NextStack ==
  \/ \E x \in StackValues : StackOpBudget /\ Push(1, x)
  \/ StackOpBudget /\ Pop(1)
  \/ StackOpBudget /\ Peek(1)
  \/ StackOpBudget /\ Clear(1)
  \/ StackOpBudget /\ PushReturn(1, Num(3))
  \/ StackOpBudget /\ TakeSnapshot(1)
  \/ \E i \in 1..StackDepth : StackOpBudget /\ WriteHeld(i, Num(MaxVal))
  \/ StackOpBudget /\ TruncateHeld
  \/ StackOpBudget /\ RunCode(1, << "1", " ", "2" >>)
  \/ StackOpBudget /\ ExecuteName(1, "2DUP")
  \/ StackOpBudget /\ SerializeVM(1)
  \/ StackOpBudget /\ DeserializeVM(1)
  \/ StackOpBudget /\ Clone

SpecStack == Init /\ [][NextStack]_vars

\* C25: the depth of every Stack, the data stack and the return stack of the
\* original VM and of its clone, is at least 0 and at most the maxDepth the
\* Stack was created with, after every push, pop, peek, clear, snapshot,
\* run, execute, deserialize and clone.
C25_DepthWithinBounds ==
  \A i \in DOMAIN stacks :
    /\ 0 <= Depth(stacks[i].items)
    /\ Depth(stacks[i].items) <= stacks[i].maxDepth

\* 2DUP on a data stack one below its maxDepth has failed on its second
\* push: the data stack is full, and so is the return stack
C25_Witness ==
  /\ last.op = "execute" /\ last.name = "2DUP" /\ last.err = StackOverflowError
  /\ Depth(DataStack(1).items) = StackDepth
  /\ Depth(ReturnStack(1).items) = ReturnStackDepth

\* what push(x) has to do to a Stack that held items: fail with
\* StackOverflowError and change nothing when the depth was maxDepth, and
\* otherwise put x on top of the unchanged items
PushedAsSpecified(items, maxDepth, x, after, err) ==
  IF Depth(items) = maxDepth
  THEN err = StackOverflowError /\ after = items
  ELSE /\ err = NoErr
       /\ Depth(after) = Depth(items) + 1
       /\ StackTop(Result(after)) = x
       /\ SubSeq(after, 1, Depth(items)) = items

\* C26: push(x) fails with StackOverflowError exactly when depth() was
\* maxDepth before the call, and then the contents are unchanged; otherwise
\* the depth grows by one, x is the new top and the values below it are
\* unchanged.  Checked for the data stack and for the return stack.
C26_Push ==
  [][/\ \A x \in StackValues :
          Push(1, x) => PushedAsSpecified(DataStack(1).items, DataStack(1).maxDepth, x,
                                          DataStack(1)'.items, last'.err)
     /\ PushReturn(1, Num(3))
          => PushedAsSpecified(ReturnStack(1).items, ReturnStack(1).maxDepth, Num(3),
                               ReturnStack(1)'.items, last'.err)]_vars

\* the third call is a push that has failed on the full data stack, which
\* still holds the four values of two runs of "1 2"
C26_Witness ==
  /\ last.op = "push" /\ last.err = StackOverflowError /\ steps = 3
  /\ DataStack(1).items = << Num(1), Num(2), Num(1), Num(2) >>
  /\ Depth(DataStack(1).items) = DataStack(1).maxDepth

\* the sequences of at most n elements of S
SeqsUpTo(S, n) == UNION {[1..k -> S] : k \in 0..n}

Reverse(s) == [i \in 1..Len(s) |-> s[Len(s) + 1 - i]]

\* n times pop() on the stack r.st: the stack after them, the values
\* returned and the depths after each pop, in order
RECURSIVE PopAll(_, _, _, _)
PopAll(r, n, out, depths) ==
  IF n = 0 \/ r.err # NoErr THEN [st |-> r.st, err |-> r.err, out |-> out, depths |-> depths]
  ELSE LET next == StackPop(r)
       IN PopAll(next, n - 1, Append(out, StackTop(r)), Append(depths, Depth(next.st)))

\* the values xs pushed onto a Stack holding items, then as many pops
PushPop(xs, items, maxDepth) ==
  PopAll(PushAll(xs, 1, Result(items), maxDepth), Len(xs), << >>, << >>)

\* pushing any values that fit onto a Stack holding items and popping as
\* many: no call fails, the pops return the values in reverse order of the
\* pushes, the first pop finds the depth raised by the number of pushes and
\* each pop brings it down by one, and the items are again as they were
LIFO(items, maxDepth) ==
  \A xs \in SeqsUpTo(StackValues, maxDepth - Depth(items)) :
    PushPop(xs, items, maxDepth)
      = [st |-> items, err |-> NoErr, out |-> Reverse(xs),
         depths |-> [k \in 1..Len(xs) |-> Depth(items) + Len(xs) - k]]

\* C27: whenever the data stack has got new contents, the empty stack
\* among them, any n pushes that fit bring the depth up by n and n pops then
\* return the values in reverse order of the pushes, each pop taking the
\* depth down by one; and every pop() the caller makes returns the top
\* value, the one pushed last among those not yet popped, and removes it
\* alone.
C27_LIFO ==
  [][/\ DataStack(1)'.items # DataStack(1).items
          => LIFO(DataStack(1)'.items, DataStack(1)'.maxDepth)
     /\ (Pop(1) /\ last'.err = NoErr)
          => /\ last'.ret = DataStack(1).items[Depth(DataStack(1).items)]
             /\ Depth(DataStack(1)'.items) = Depth(DataStack(1).items) - 1
             /\ DataStack(1)'.items
                  = SubSeq(DataStack(1).items, 1, Depth(DataStack(1).items) - 1)]_vars

\* run("1 2"), snapshot() and two pops: the second pop has returned 1, the
\* value pushed first, and the stack is empty
C27_Witness ==
  /\ last.op = "pop" /\ last.err = NoErr /\ last.ret = Num(1) /\ steps = 4
  /\ snap.kind = "snapshot" /\ snap.items = << Num(1), Num(2) >>
  /\ Depth(DataStack(1).items) = 0

\* C28: pop() and peek() fail with StackUnderflowError exactly when depth()
\* is 0, and the stack is then still empty and takes a push; a successful
\* peek() returns the top value and changes neither the stack nor anything
\* else, however often it is repeated.
C28_UnderflowAndPeek ==
  [][/\ (Pop(1) \/ Peek(1))
          => /\ last'.err = StackUnderflowError <=> Depth(DataStack(1).items) = 0
             /\ last'.err \in {NoErr, StackUnderflowError}
             /\ last'.err = StackUnderflowError
                  => /\ DataStack(1)'.items = << >>
                     /\ stacks' = stacks
                     /\ \A x \in StackValues :
                          StackPush(Result(DataStack(1)'.items), x, DataStack(1)'.maxDepth)
                            = Result(<< x >>)
     /\ (Peek(1) /\ last'.err = NoErr)
          => /\ last'.ret = DataStack(1).items[Depth(DataStack(1).items)]
             /\ stacks' = stacks /\ dicts' = dicts /\ meta' = meta /\ snap' = snap
             /\ StackPeek(Result(DataStack(1)'.items)) = Result(DataStack(1).items)
             /\ StackTop(Result(DataStack(1)'.items)) = last'.ret]_vars

\* two peeks in a row after push(1) and push(2): the second one has
\* returned 2 and the stack still holds both values
C28_Witness ==
  /\ last.op = "peek" /\ last.err = NoErr /\ last.ret = Num(2) /\ steps = 4
  /\ DataStack(1).items = << Num(1), Num(2) >>
  /\ snap = NoArray /\ ~held.has /\ DOMAIN vms = {1}
  /\ ReturnStack(1).items = << >>

\* the calls that work on the stacks of a VM
StackCalls ==
  {"push", "pop", "peek", "clear", "pushReturn", "run", "execute", "serialize",
   "deserialize", "clone"}

\* C29: snapshot() returns the values of the data stack from bottom to top
\* and changes nothing; writing into the returned array or truncating it
\* leaves the stack, and so what peek, pop, depth and snapshot give, as it
\* was; and no later call on the stack changes the array already returned.
C29_SnapshotIndependent ==
  [][/\ last'.op = "snapshot"
          => /\ last'.err = NoErr
             /\ Len(snap'.items) = Depth(DataStack(1).items)
             /\ \A i \in 1..Len(snap'.items) : snap'.items[i] = DataStack(1).items[i]
             /\ stacks' = stacks /\ dicts' = dicts /\ meta' = meta
     /\ last'.op \in {"write", "truncate"}
          => /\ stacks' = stacks
             /\ StackSnapshot(DataStack(1)'.items) = StackSnapshot(DataStack(1).items)
             /\ Depth(DataStack(1)'.items) = Depth(DataStack(1).items)
             /\ StackTop(Result(DataStack(1)'.items)) = StackTop(Result(DataStack(1).items))
             /\ StackPop(Result(DataStack(1)'.items)) = StackPop(Result(DataStack(1).items))
     /\ last'.op \in StackCalls => snap' = snap]_vars

\* the caller took a snapshot of the stack holding 1 and 2, wrote into its
\* first place and then popped: the array holds the written value and 2,
\* the stack holds 1
C29_Witness ==
  /\ last.op = "pop" /\ last.err = NoErr /\ last.ret = Num(2)
  /\ snap.kind = "snapshot" /\ snap.items = << Num(MaxVal), Num(2) >>
  /\ DataStack(1).items = << Num(1) >>

\* what a caller can tell of an error without reading its message: the
\* class of the object and its type tag
KindOf(err) == [cls |-> err.cls, type |-> err.type]

\* C30: every error a Stack, Dictionary or VM call raises carries a kind tag
\* (a non-empty type) that names its kind, so that the failure of define or
\* forget on a protected word and the failure of forget on an unknown word
\* differ in something else than their message.  Checked under SpecDict.
C30_ErrorsCarryKindTag ==
  last.err # NoErr
    => /\ last.err.type # ""
       /\ KindOf(last.err) # KindOf(PlainError("Cannot forget unknown word", last.name))
            \/ KindOf(last.err) # KindOf(PlainError("Cannot forget protected word", last.name))

(***************************************************************************)
(* The return stack, checked under SpecDict                                *)
(***************************************************************************)
\* C31: the return stack of every VM, the clone included, is empty in every
\* state reached by run, define, forget, serialize, deserialize and clone,
\* with the compiled word F executed by run.
C31_ReturnStackEmpty ==
  \A v \in DOMAIN vms : Depth(ReturnStack(v).items) = 0

\* the original ran "1 F", was serialized and cloned, and the clone has
\* deserialized the state: both data stacks hold a value, both return
\* stacks are empty
C31_Witness ==
  /\ 2 \in DOMAIN vms
  /\ last.op = "deserialize" /\ last.vm = 2 /\ last.err = NoErr
  /\ Depth(DataStack(1).items) > 0 /\ Depth(DataStack(2).items) > 0
  /\ Depth(ReturnStack(1).items) = 0 /\ Depth(ReturnStack(2).items) = 0

(***************************************************************************)
(* SpecWords: a bootstrapped VM with a deeper data stack, on which the     *)
(* caller has pushed some values, executes CORE words by name.             *)
(***************************************************************************)
WordsConfig ==
  [stackDepth |-> Some(WordStackDepth), returnStackDepth |-> Some(ReturnStackDepth)]

\* the numbers the caller pushes as operands
Operands == {0 - 7, 0 - 3, 0, 2, 3, 7}

\* the contents of the data stack when the words are executed: 1 2 3 ... up
\* to five values, and two operands above a 5
WordStacks ==
  {[i \in 1..k |-> Num(i)] : k \in 0..5}
    \cup {<< Num(5), Num(a), Num(b) >> : a \in Operands, b \in Operands}

StackWordNames == {"DUP", "DROP", "SWAP", "OVER", "ROT", "2DUP", "2DROP", "2SWAP"}

BinaryWordNames == {"+", "-", "*", "MOD", "=", "<", ">", "<=", ">="}

InitWords ==
  /\ vms = [v \in {1} |-> NewVM(WordsConfig, 1, 1)]
  /\ \E items \in WordStacks :
       stacks = [NewVMStacks(WordsConfig) EXCEPT ![1].items = items]
  /\ dicts = << BootstrapWords(1, NewDictionary, CoreMetadata).d >>
  /\ meta = CoreMetadata
  /\ held = None
  /\ snap = NoArray
  /\ frames = << >>
  /\ last = Call("push", 1, "", << >>, NoErr, Undefined)
  /\ steps = 0
  /\ hist = [heldFrom |-> 0, restored |-> {}, replaced |-> << >>]

NextWords ==
  \E name \in StackWordNames \cup BinaryWordNames :
    steps < MaxWordSteps /\ ExecuteName(1, name)

SpecWords == InitWords /\ [][NextWords]_vars

\* the number of inputs of a stack word
Inputs(name) ==
  CASE name \in {"DUP", "DROP"} -> 1
    [] name \in {"SWAP", "OVER", "2DUP", "2DROP"} -> 2
    [] name = "ROT" -> 3
    [] name = "2SWAP" -> 4

\* what the stack effect of a stack word makes of its inputs t, the last
\* one being the top
Outputs(name, t) ==
  CASE name = "DUP" -> << t[1], t[1] >>
    [] name = "DROP" -> << >>
    [] name = "SWAP" -> << t[2], t[1] >>
    [] name = "OVER" -> << t[1], t[2], t[1] >>
    [] name = "ROT" -> << t[2], t[3], t[1] >>
    [] name = "2DUP" -> << t[1], t[2], t[1], t[2] >>
    [] name = "2DROP" -> << >>
    [] name = "2SWAP" -> << t[3], t[4], t[1], t[2] >>

\* C32: a stack word executed on a data stack with fewer values than its
\* inputs raises StackUnderflowError; executed on one that holds its inputs
\* and has room for its outputs it succeeds, the inputs are replaced by the
\* outputs its stack effect states and every value below them is unchanged.
C32_StackWords ==
  [][(last'.op = "execute" /\ last'.name \in StackWordNames)
       => LET name == last'.name
              items == DataStack(1).items
              n == Depth(items)
              k == Inputs(name)
              out == Outputs(name, SubSeq(items, n - k + 1, n))
          IN IF n < k THEN last'.err = StackUnderflowError
             ELSE (n - k + Len(out) <= DataStack(1).maxDepth)
                    => /\ last'.err = NoErr
                       /\ DataStack(1)'.items = SubSeq(items, 1, n - k) \o out]_vars

\* 2SWAP has been executed on 1 2 3 4 5: the 1 at the bottom is in place
\* and the pairs 2 3 and 4 5 have changed places
C32_Witness ==
  /\ last.op = "execute" /\ last.name = "2SWAP" /\ last.err = NoErr /\ steps = 1
  /\ DataStack(1).items = << Num(1), Num(4), Num(5), Num(2), Num(3) >>

\* the remainder of the division of a by b # 0 that truncates the quotient
\* towards zero: smaller than b in absolute value, zero or of the sign of a
TruncatedRemainder(a, b) ==
  CHOOSE r \in (0 - MaxVal)..MaxVal :
    /\ Abs(r) < Abs(b)
    /\ r = 0 \/ ((r < 0) <=> (a < 0))
    /\ \E q \in (0 - MaxVal)..MaxVal : a = q * b + r

\* 'a op b' for integers a and b, with b # 0 for MOD
Applied(name, a, b) ==
  CASE name = "+" -> Num(a + b)
    [] name = "-" -> Num(a - b)
    [] name = "*" -> Num(a * b)
    [] name = "MOD" -> Num(TruncatedRemainder(a, b))
    [] name = "=" -> Bool(a = b)
    [] name = "<" -> Bool(a < b)
    [] name = ">" -> Bool(a > b)
    [] name = "<=" -> Bool(a <= b)
    [] name = ">=" -> Bool(a >= b)

\* C33: a binary arithmetic or comparison word executed on a data stack of
\* at least two values succeeds, takes the depth down by one and leaves the
\* values below the two operands unchanged; when the operands are integers
\* (and the divisor of MOD is not 0) the new top is 'a op b' with b the
\* former top and a the value below it, MOD being the truncated remainder.
C33_BinaryWords ==
  [][(/\ last'.op = "execute" /\ last'.name \in BinaryWordNames
      /\ Depth(DataStack(1).items) >= 2)
       => LET name == last'.name
              items == DataStack(1).items
              n == Depth(items)
              a == items[n - 1]
              b == items[n]
              after == DataStack(1)'.items
          IN /\ last'.err = NoErr
             /\ Depth(after) = n - 1
             /\ SubSeq(after, 1, n - 2) = SubSeq(items, 1, n - 2)
             /\ (a.t = "num" /\ b.t = "num" /\ (name = "MOD" => b.n # 0))
                  => after[n - 1] = Applied(name, a.n, b.n)]_vars

\* MOD has been executed on 5 -7 3: the stack holds 5 and -1
C33_Witness ==
  /\ last.op = "execute" /\ last.name = "MOD" /\ last.err = NoErr /\ steps = 1
  /\ DataStack(1).items = << Num(5), Num(0 - 1) >>

\* C34: a Word archived in a previousDefinitions list stays as it was when
\* it was archived: no later call changes the entry, the metadata object of
\* the archived word or the previousDefinitions list of that object, and no
\* archived word is an entry of its own previousDefinitions list.  Checked
\* under SpecDict.
C34_ArchivedWordFrozen ==
  [][/\ \A i \in 1..Len(meta) :
          \A k \in 1..Len(PreviousDefinitions(meta, i)) :
            LET archived == PreviousDefinitions(meta, i)[k].definition
            IN /\ k <= Len(PreviousDefinitions(meta', i))
               /\ PreviousDefinitions(meta', i)[k].definition = archived
               /\ meta'[archived.metadata] = meta[archived.metadata]
     /\ \A i \in 1..Len(meta') :
          \A k \in 1..Len(PreviousDefinitions(meta', i)) :
            PreviousDefinitions(meta', i)[k].definition.metadata # i]_vars

(***************************************************************************)
(* SpecBind: a bootstrapped VM; the caller defines, redefines and forgets  *)
(* the word W, defines V, whose body names W between two literals, and     *)
(* executes V.                                                             *)
(***************************************************************************)
BindBudget == steps < MaxBindSteps

\* the bodies W is defined with
BindBodies == {<< "1" >>, << "2" >>}

\* the body of V
BindCaller == << "3", "W", "5" >>

NextBind ==
  \/ \E body \in BindBodies : BindBudget /\ Define(1, "W", WordOf(body), FALSE)
  \/ BindBudget /\ Define(1, "V", WordOf(BindCaller), FALSE)
  \/ BindBudget /\ Forget(1, "W")
  \/ BindBudget /\ ExecuteName(1, "V")
  \/ BindBudget /\ Clear(1)

SpecBind == Init /\ [][NextBind]_vars

\* C35: once W has been defined or redefined with a body, an execution of
\* V from then on pushes 3, does what that body does and pushes 5, stopping
\* at the first push that fails; once W has been forgotten it pushes 3 and
\* fails with WordNotFoundError for W; and every execute('V') the caller
\* makes does so with the definition W has at the time of the call.
C35_LateBinding ==
  [][LET items == DataStack(1).items
         maxDepth == DataStack(1).maxDepth
         first == StackPush(Result(items), Num(3), maxDepth)
         missing == IF first.err # NoErr THEN first
                    ELSE [first EXCEPT !.err = WordNotFoundError("W")]
     IN /\ \A body \in BindBodies :
             (/\ Define(1, "W", WordOf(body), FALSE) /\ last'.err = NoErr
              /\ "V" \in DOMAIN Dict(1).words)
               => Execute(ByName("V"), Result(items), Dict(1)', maxDepth, MaxFuel)
                    = PushAll(<< Num(3), Number(body[1]), Num(5) >>, 1, Result(items),
                              maxDepth)
        /\ (Forget(1, "W") /\ last'.err = NoErr /\ "V" \in DOMAIN Dict(1).words)
             => Execute(ByName("V"), Result(items), Dict(1)', maxDepth, MaxFuel) = missing
        /\ (last'.op = "execute" /\ last'.name = "V" /\ "V" \in DOMAIN Dict(1).words)
             => IF "W" \in DOMAIN Dict(1).words
                THEN LET now == Number(Dict(1).words["W"].body.tokens[1])
                         all == PushAll(<< Num(3), now, Num(5) >>, 1, Result(items),
                                        maxDepth)
                     IN /\ DataStack(1)'.items = all.st
                        /\ last'.err = all.err
                ELSE /\ DataStack(1)'.items = missing.st
                     /\ last'.err = missing.err]_vars

\* W was defined with 1, V was defined, W was redefined with 2, and the
\* fourth call, execute('V'), has pushed 3 2 5
C35_Witness ==
  /\ last.op = "execute" /\ last.name = "V" /\ last.err = NoErr /\ steps = 4
  /\ DataStack(1).items = << Num(3), Num(2), Num(5) >>
  /\ "W" \in DOMAIN Dict(1).words
  /\ Len(PreviousDefinitions(meta, Dict(1).words["W"].metadata)) = 1
  /\ PreviousDefinitions(meta, Dict(1).words["W"].metadata)[1].definition.body
       = CompiledBody(<< "1" >>)

(***************************************************************************)
(* SpecNumeral: a bootstrapped VM on which the caller defines and forgets  *)
(* a word named 2, defines T, whose body is the token 2, and hands the     *)
(* token 2 to run, to execute and, inside a body, to execute.              *)
(***************************************************************************)
NumeralBudget == steps < MaxNumeralSteps

\* the bodies the word named 2 is defined with
NumeralBodies == {<< "5" >>, << "1", "3" >>}

\* the sources handed to run, and as the body of a Word object to execute
NumeralSources == {<< "2" >>, << "1", " ", "2" >>}

NextNumeral ==
  \/ \E body \in NumeralBodies : NumeralBudget /\ Define(1, "2", WordOf(body), FALSE)
  \/ NumeralBudget /\ Define(1, "T", WordOf(<< "2" >>), FALSE)
  \/ NumeralBudget /\ Forget(1, "2")
  \/ \E code \in NumeralSources : NumeralBudget /\ RunCode(1, code)
  \/ \E name \in {"2", "T"} : NumeralBudget /\ ExecuteName(1, name)
  \/ \E code \in NumeralSources : NumeralBudget /\ ExecuteWord(1, Parse(code))
  \/ NumeralBudget /\ Clear(1)

SpecNumeral == Init /\ [][NextNumeral]_vars

\* the values a source of numerals stands for
Literals(tokens) == [i \in 1..Len(tokens) |-> Number(tokens[i])]

Frame(op, name, code, tokens, start) ==
  [op |-> op, name |-> name, code |-> code, tokens |-> tokens, i |-> 1,
   start |-> start]

Running == frames # << >>

\* the invocations of execute among the frames
Nesting(fs) == IF fs # << >> /\ fs[1].op = "run" THEN Len(fs) - 1 ELSE Len(fs)

\* variant in which the innermost loop stays at the token it has taken
AdvancedStays(fs) == fs

\* the frames once the innermost loop has taken its next token
Advanced(fs) == [fs EXCEPT ![Len(fs)].i = fs[Len(fs)].i + 1]

\* the frames once the innermost invocation has returned
Returned(fs) == SubSeq(fs, 1, Len(fs) - 1)

\* variant in which the invocation that called the failing one goes on with
\* its loop
ThrownToCaller(fs, err) ==
  IF Len(fs) > 1 THEN [frames |-> Returned(fs), err |-> NoErr]
  ELSE [frames |-> << >>, err |-> err]

\* the frames once a token has thrown err: no invocation catches it
Thrown(fs, err) == [frames |-> << >>, err |-> err]

\* vm.run(code), up to the entry of its loop
BeginRun(v, code) ==
  /\ steps < MaxSteps /\ v \in DOMAIN vms /\ ~Running
  /\ frames' = << Frame("run", "", code, Parse(code), DataStack(v).items) >>
  /\ steps' = steps + 1
  /\ UNCHANGED << vms, stacks, dicts, meta, held, snap, last, hist >>

\* vm.execute(name): up to the entry of the loop over its body when the
\* word is compiled, the whole call otherwise
BeginExecute(v, name) ==
  /\ steps < MaxSteps /\ v \in DOMAIN vms /\ ~Running
  /\ LET found == DictFind(Dict(v), name)
     IN IF found.has /\ found.v.body.kind = "compiled"
        THEN /\ frames' = << Frame("execute", name, << >>, found.v.body.tokens,
                                       DataStack(v).items) >>
             /\ UNCHANGED << stacks, last >>
        ELSE LET r == Execute(ByName(name), Result(DataStack(v).items), Dict(v),
                              DataStack(v).maxDepth, MaxFuel)
             IN /\ ~r.oor
                /\ stacks' = [stacks EXCEPT ![vms[v].dataStack].items = r.st]
                /\ last' = Call("execute", v, name, << >>, r.err, Undefined)
                /\ frames' = frames
  /\ steps' = steps + 1
  /\ UNCHANGED << vms, dicts, meta, held, hist >>
  /\ snap' = Synced(snap, stacks', dicts')

\* one step of the innermost loop: it ends, or it takes its next token
StepToken(v) ==
  /\ v \in DOMAIN vms /\ Running
  /\ LET n == Len(frames)
         f == frames[n]
         r == Result(DataStack(v).items)
         maxDepth == DataStack(v).maxDepth
         call(err) == Call(frames[1].op, v, frames[1].name, frames[1].code, err, Undefined)
         \* the token has left the stack as res says
         done(res) ==
           /\ ~res.oor
           /\ stacks' = [stacks EXCEPT ![vms[v].dataStack].items = res.st]
           /\ IF res.err # NoErr
              THEN LET thrown == Thrown(frames, res.err)
                   IN /\ frames' = thrown.frames
                      /\ last' = IF thrown.frames = << >> THEN call(thrown.err) ELSE last
              ELSE frames' = Advanced(frames) /\ last' = last
     IN IF f.i > Len(f.tokens)
        THEN /\ frames' = Returned(frames)
             /\ last' = IF n = 1 THEN call(NoErr) ELSE last
             /\ stacks' = stacks
        ELSE LET token == f.tokens[f.i]
                 num == Number(token)
                 found == DictFind(Dict(v), token)
             IN IF ~IsNaN(num) THEN done(StackPush(r, num, maxDepth))
                ELSE IF Nesting(frames) >= MaxFuel THEN done([r EXCEPT !.err = RangeError])
                ELSE IF ~found.has THEN done([r EXCEPT !.err = WordNotFoundError(token)])
                ELSE IF found.v.body.kind = "native"
                THEN done(Native(found.v.body.fn, r, maxDepth))
                ELSE /\ frames' = Append(Advanced(frames),
                                         Frame("execute", token, << >>, found.v.body.tokens,
                                               r.st))
                     /\ last' = last
                     /\ stacks' = stacks
  /\ UNCHANGED << vms, dicts, meta, held, steps, hist >>
  /\ snap' = Synced(snap, stacks', dicts')

(***************************************************************************)
(* SpecStep: a bootstrapped VM on which the caller defines compiled words, *)
(* some of which name themselves, and calls run and execute, which are     *)
(* interpreted token by token.  SpecStepLive adds that a call in progress  *)
(* goes on: a VM method runs to completion without suspending.             *)
(***************************************************************************)
StepBudget == steps < MaxStepSteps

StepWords ==
  { << "E", << >> >>,
    << "C", << "E", "E" >> >>,
    << "A", << "1", "B" >> >>,
    << "B", << "DUP", "+" >> >>,
    << "GROW", << "1", "GROW" >> >>,
    << "LOOP", << "LOOP" >> >>,
    << "PING", << "PONG" >> >>,
    << "PONG", << "DROP", "PING" >> >>,
    << "MISS", << "NOPE", "MISS" >> >>,
    << "2", << "2" >> >> }

StepNames == {"E", "C", "A", "B", "GROW", "LOOP", "PING", "MISS", "2", "DUP", "NOPE"}

StepSources == {<< "1", " ", "A" >>, << "2", " ", "PING" >>, << "C" >>, << "GROW" >>}

NextStep ==
  \/ \E w \in StepWords : StepBudget /\ ~Running /\ Define(1, w[1], WordOf(w[2]), FALSE)
  \/ \E name \in StepNames : StepBudget /\ BeginExecute(1, name)
  \/ \E code \in StepSources : StepBudget /\ BeginRun(1, code)
  \/ StepToken(1)

SpecStep == Init /\ [][NextStep]_vars

SpecStepLive == SpecStep /\ WF_vars(StepToken(1))

\* the names reachable from names through the bodies of the compiled words
\* of d
RECURSIVE ReachNames(_, _, _)
ReachNames(names, d, numerals) ==
  LET compiled == {n \in names : n \in DOMAIN d.words /\ d.words[n].body.kind = "compiled"}
      next == names \cup UNION {Named(d.words[n].body.tokens, numerals) : n \in compiled}
  IN IF next = names THEN names ELSE ReachNames(next, d, numerals)

\* the compiled word name names itself, directly or transitively
NamesItself(name, d, numerals) ==
  /\ name \in DOMAIN d.words
  /\ d.words[name].body.kind = "compiled"
  /\ name \in ReachNames(Named(d.words[name].body.tokens, numerals), d, numerals)

\* no compiled word reachable from tokens names itself
CycleFree(tokens, d) ==
  \A n \in ReachNames(Named(tokens, FALSE), d, FALSE) : ~NamesItself(n, d, FALSE)

\* C37: a run or execute in progress whose tokens reach no compiled word
\* that names itself returns to the caller, normally or with an error of
\* the VM, and not because the host call stack is exhausted.
C37_Terminates ==
  (Running /\ CycleFree(frames[1].tokens, Dict(1)))
    ~> (~Running /\ last.err # RangeError)

\* A = '1 B' and B = 'DUP +' were defined and execute('A') has returned
\* normally with 2 on the stack
C37_Witness ==
  /\ ~Running /\ last.op = "execute" /\ last.name = "A" /\ last.err = NoErr
  /\ DataStack(1).items = << Num(2) >>
  /\ "B" \in DOMAIN Dict(1).words

\* The token-by-token interpretation agrees with Run and Execute: when the
\* call returns, the stack and the error are those the operators give for
\* the stack the call started with.
StepAgreesWithExecute ==
  [][(Running /\ ~Running')
       => LET b == frames[1]
              whole == IF b.op = "run"
                       THEN Run(b.code, Result(b.start), Dict(1), DataStack(1).maxDepth)
                       ELSE Execute(ByName(b.name), Result(b.start), Dict(1),
                                    DataStack(1).maxDepth, MaxFuel)
          IN /\ DataStack(1)'.items = whole.st
             /\ last'.err = whole.err]_vars

\* the body of the compiled word name is numerals, at least one, and then
\* its own name: every round of the cycle pushes
PushesEachRound(name, d) ==
  LET body == d.words[name].body.tokens
  IN \E k \in 2..Len(body) :
       /\ body[k] = name
       /\ \A j \in 1..(k - 1) : ~IsNaN(Number(body[j]))

\* the errors a token reachable from the word name can raise, and the
\* exhaustion of the host call stack
CycleErrors(name, d) ==
  {StackOverflowError, StackUnderflowError, RangeError}
    \cup {WordNotFoundError(n) : n \in ReachNames({name}, d, FALSE)}

FrameBudget == steps < MaxFrameSteps

NextFrame ==
  \/ \E w \in ExecWords : FrameBudget /\ Define(1, w[1], WordOf(w[2]), FALSE)
  \/ \E x \in {Num(2), Num(5)} : FrameBudget /\ Push(1, x)
  \/ \E code \in ExecSources : FrameBudget /\ RunCode(1, code)
  \/ \E name \in ExecNames : FrameBudget /\ ExecuteName(1, name)
  \/ \E code \in ExecSources : FrameBudget /\ ExecuteWord(1, Parse(code))
  \/ FrameBudget /\ SerializeVM(1)

SpecFrame == Init /\ [][NextFrame]_vars

AtomicBudget == steps < MaxAtomicSteps

InitAtomic ==
  LET small == [stackDepth |-> Some(SmallStackDepth),
                returnStackDepth |-> Some(ReturnStackDepth)]
      boot == BootstrapWords(1, NewDictionary, CoreMetadata)
  IN /\ vms = [v \in {1, 2} |-> IF v = 1 THEN NewVM(Config, 1, 1) ELSE NewVM(small, 3, 2)]
     /\ stacks = NewVMStacks(Config)
                   \o [NewVMStacks(small) EXCEPT ![1].items = << Num(5) >>]
     /\ dicts = << boot.d, BootstrapWords(1, NewDictionary, boot.m).d >>
     /\ meta = boot.m
     /\ held = None
     /\ snap = NoArray
     /\ frames = << >>
     /\ last = Call("push", 2, "", << >>, NoErr, Undefined)
     /\ steps = 0
     /\ hist = [heldFrom |-> 0, restored |-> {}, replaced |-> << >>]

NextAtomic ==
  \/ \E name \in {"F", "G"} : AtomicBudget /\ Define(1, name, WordOf(<< "1" >>), FALSE)
  \/ AtomicBudget
       /\ Define(2, "G", [WordOf(<< "2" >>) EXCEPT !.protected = Some(TRUE)], FALSE)
  \/ \E x \in {Num(1), Num(2)} : AtomicBudget /\ Push(1, x)
  \/ AtomicBudget /\ SerializeVM(1)
  \/ AtomicBudget /\ DeserializeVM(2)

SpecAtomic == InitAtomic /\ [][NextAtomic]_vars

\* the first entry of the serialized dictionary list that is not native
\* and names a protected word of d; 0 when there is none
Collision(list, d) ==
  LET hits == {i \in 1..Len(list) :
                 /\ list[i].body # NativeSentinel
                 /\ list[i].name \in DOMAIN d.words
                 /\ d.words[list[i].name].protected}
  IN IF hits = {} THEN 0 ELSE CHOOSE i \in hits : \A j \in hits : i <= j

\* C40: deserialize keeps the maxDepth and the configuration of the VM,
\* whatever state.config says.  When state.stack holds more values than
\* maxDepth, it fails with StackOverflowError, the data stack holds the first
\* maxDepth values of state.stack and no word has been defined.  Otherwise,
\* when an entry of state.dictionary names a protected word, it fails with
\* the error of define for the first such entry, the data stack holds
\* state.stack, every earlier entry has been defined and the protected word
\* is as it was.
C40_DeserializeNotAtomic ==
  [][(last'.op = "deserialize" /\ last'.vm = 2)
       => LET state == held.v
              maxDepth == DataStack(2).maxDepth
              k == Collision(state.dictionary, Dict(2))
          IN /\ DataStack(2)'.maxDepth = maxDepth
             /\ vms' = vms
             /\ Len(state.stack) > maxDepth
                  => /\ last'.err = StackOverflowError
                     /\ DataStack(2)'.items = SubSeq(state.stack, 1, maxDepth)
                     /\ dicts' = dicts
                     /\ meta' = meta
             /\ (Len(state.stack) <= maxDepth /\ k > 0)
                  => /\ last'.err = PlainError("Cannot redefine protected word",
                                               state.dictionary[k].name)
                     /\ DataStack(2)'.items = state.stack
                     /\ Dict(2)'.words[state.dictionary[k].name]
                          = Dict(2).words[state.dictionary[k].name]
                     /\ \A j \in 1..(k - 1) :
                          state.dictionary[j].body # NativeSentinel
                            => /\ state.dictionary[j].name \in DOMAIN Dict(2)'.words
                               /\ Dict(2)'.words[state.dictionary[j].name].body
                                    = CompiledBody(JSONParse(state.dictionary[j].body))]_vars

\* VM 1 held more values than the maxDepth of VM 2 when it was serialized,
\* with its larger stackDepth in state.config; the deserialize of VM 2 has
\* failed with the first maxDepth values in place of the 5
C40_Witness ==
  /\ last.op = "deserialize" /\ last.vm = 2 /\ last.err = StackOverflowError
  /\ held.has /\ Len(held.v.stack) > DataStack(2).maxDepth
  /\ held.v.config.stackDepth # vms[2].config.stackDepth
  /\ DataStack(2).items = SubSeq(held.v.stack, 1, DataStack(2).maxDepth)
  /\ DataStack(2).items[1] # Num(5)

\* F and G of VM 1 were serialized, G is protected on VM 2, and the
\* deserialize of VM 2 has failed at G with F defined and the stack replaced
C40_WitnessCollision ==
  /\ last.op = "deserialize" /\ last.vm = 2
  /\ last.err = PlainError("Cannot redefine protected word", "G")
  /\ "F" \in DOMAIN Dict(2).words
  /\ DataStack(2).items = << >>

====
